---- MODULE Spec2Model ----
(***************************************************************************)
(* Fireline-engagement (FLE) QAQC: the control-line consolidation and      *)
(* engagement-classification engine of xbuild/qaqc.py (FLE_QAQC) and the   *)
(* flagging block of Tool/4_FLEMetrics.py.                                 *)
(*                                                                         *)
(* Geometry is modelled on one axis: every fireline is a LineString lying  *)
(* on the line y = 0 between two integer abscissae, a perimeter polygon is *)
(* a union of strips [c, c+1] x [0, PermHeight] ("cells"), and lengths and *)
(* coordinates are exact rationals <<n, d>>.                               *)
(***************************************************************************)
EXTENDS Integers, Sequences, FiniteSets, TLC

VARIABLES
    opr_event,      \* self._opr_event : the line events (rows)
    outperm,        \* self._outperm   : the fire perimeters (rows)
    perm_dist,      \* _average_lines argument
    line_dist,      \* _average_lines argument
    pc,             \* position in _average_lines
    opr_event_lnk,  \* local: completed lines joined to the dissolved perimeters
    rw,             \* local: index of the incident (row of outperm_lnk) in process
    act,            \* locals of the innermost loop: the Action just averaged
    geo_lst,        \* local: averaged geometries of the incident so far
    fc_lst,         \* local: their feature categories
    df2,            \* local: the labelled pieces of the incident
    gm,             \* locals of the last _get_metrics call
    cnt_lns_lst,    \* local: list of per-incident line frames
    perm_list,      \* local: list of per-incident metric rows
    fle,            \* state of the flag block of Tool/4_FLEMetrics.py
    snap,           \* what _assign_snap_dissolve returned
    clean,          \* state of the attribute cleaning of Tool/2_NIFC_Fireline_QAQC.py
    reproc,         \* state of the attribution block of Tool/2B_NIFC_Fireline_Reprocessing.py
    rest            \* state of a get_data call and of its _get_rest_data calls

vars == <<opr_event, outperm, perm_dist, line_dist, pc, opr_event_lnk, rw, act,
          geo_lst, fc_lst, df2, gm, cnt_lns_lst, perm_list, fle, snap, clean, reproc, rest>>

-----------------------------------------------------------------------------
(* Bounds of the model *)

WorldMax == 10       \* abscissae 0..WorldMax, cells 0..WorldMax-1
MaxLines == 2        \* rows of opr_event
MaxSegs == 3         \* segments of one (incident, category) set (SpecAction)
MaxSegLen == 5       \* longest segment of SpecAction
MaxSegEnd == 5       \* rightmost abscissa of a segment of SpecAction
PermHeight == 8      \* extent of a perimeter strip across the axis
MaxPad == 4          \* spaces before or after a value (SpecClean)
MaxFirelines == 5    \* firelines of SpecReproc
MaxIds == 3          \* object ids of a small id query (SpecRest)
MaxRecordCount == 2  \* maxRecordCount of a layer with small pages (SpecRest)
MaxClipRows == 2     \* features of a clip result of the FLE Metrics tool (SpecMetrics)

-----------------------------------------------------------------------------
(* Exact rationals <<n, d>>, d > 0, in lowest terms; numpy floats are a     *)
(* rational, "nan" or "inf".                                               *)

Abs(i) == IF i < 0 THEN -i ELSE i

RECURSIVE GCD(_, _)
GCD(a, b) == IF b = 0 THEN a ELSE GCD(b, a % b)

Rat(n, d) ==
    LET s == IF d < 0 THEN -1 ELSE 1
        g == GCD(Abs(n), Abs(d))
    IN  <<(s * n) \div g, (s * d) \div g>>

R(i) == <<i, 1>>
RAdd(a, b) == Rat(a[1] * b[2] + b[1] * a[2], a[2] * b[2])
RSub(a, b) == Rat(a[1] * b[2] - b[1] * a[2], a[2] * b[2])
RLe(a, b) == a[1] * b[2] <= b[1] * a[2]
RLt(a, b) == a[1] * b[2] < b[1] * a[2]
RMin(a, b) == IF RLe(a, b) THEN a ELSE b
RMax(a, b) == IF RLe(a, b) THEN b ELSE a
RAbs(a) == <<Abs(a[1]), a[2]>>

NaN == <<"nan">>
Inf == <<"inf">>
IsNum(v) == Len(v) = 2

\* numpy float64 true division: x/0 is nan (x = 0) or inf, with a warning only
FDiv(a, b) ==
    IF b[1] = 0 THEN (IF a[1] = 0 THEN NaN ELSE Inf)
    ELSE Rat(a[1] * b[2], a[2] * b[1])

RECURSIVE RSum(_)
RSum(s) == IF s = <<>> THEN R(0) ELSE RAdd(Head(s), RSum(Tail(s)))

-----------------------------------------------------------------------------
(* Sequences *)

RECURSIVE Flatten(_)
Flatten(ss) == IF ss = <<>> THEN <<>> ELSE Head(ss) \o Flatten(Tail(ss))

Range(s) == {s[i] : i \in DOMAIN s}

-----------------------------------------------------------------------------
(* Strings are sequences of characters *)

Lower(c) == CASE c = "A" -> "a" [] c = "B" -> "b" [] c = "C" -> "c" [] OTHER -> c
LowerSeq(s) == [i \in DOMAIN s |-> Lower(s[i])]

\* s contains pat as a substring (a regex without metacharacters)
Contains(s, pat) ==
    \E k \in 0..(Len(s) - Len(pat)) : SubSeq(s, k + 1, k + Len(pat)) = pat

\* Series.str.contains(pat, case=False)
StrContainsNoCase(s, pat) == Contains(LowerSeq(s), LowerSeq(pat))

\* Index.str.contains('p1|p2'): the alternatives of the regex, case sensitive
StrContainsAny(s, alts) == \E pat \in alts : Contains(s, pat)

NULL == <<"<null>">>

Held == <<"H", "e", "l", "d">>
BurntOver == <<"B", "u", "r", "n", "t", " ", "O", "v", "e", "r">>
NotEngaged == <<"N", "o", "t", " ", "E", "n", "g", "a", "g", "e", "d">>

CompletedDozerLine == <<"C", "o", "m", "p", "l", "e", "t", "e", "d", " ", "D", "o", "z", "e", "r">>
CompletedHandLine == <<"C", "o", "m", "p", "l", "e", "t", "e", "d", " ", "H", "a", "n", "d">>
PlannedHandLine == <<"P", "l", "a", "n", "n", "e", "d", " ", "H", "a", "n", "d">>
complete == <<"c", "o", "m", "p", "l", "e", "t", "e">>

-----------------------------------------------------------------------------
(* Geometry on the axis *)

Cells == 0..(WorldMax - 1)

\* the polygon lo <= x <= hi, as cells
Box(lo, hi) == lo..(hi - 1)

\* polygon.boundary, where it crosses the axis
Boundary(reg) == {p \in 0..WorldMax : ((p - 1) \in reg) # (p \in reg)}

\* boundary.buffer(dist), where it covers the axis
BufferBoundary(pts, dist) ==
    {c \in Cells : \E p \in pts : p - dist <= c /\ c + 1 <= p + dist}

\* number of connected parts of a polygon
Parts(reg) == Cardinality({c \in reg : (c - 1) \notin reg})

\* polygon.length (its perimeter) and polygon.area
PermLength(reg) == R(2 * Cardinality(reg) + 4 * PermHeight * Parts(reg))
PermArea(reg) == R(2 * PermHeight * Cardinality(reg))

\* a line geometry is a polyline (its vertices) restricted to a set of cells
Geom(vs, mask) == [verts |-> vs, mask |-> mask]

SegOverlap(x, y, c) ==
    LET a == RMax(RMin(x, y), R(c))
        b == RMin(RMax(x, y), R(c + 1))
    IN  IF RLt(a, b) THEN RSub(b, a) ELSE R(0)

RECURSIVE SegClipLength(_, _, _, _)
SegClipLength(x, y, reg, c) ==
    IF c >= WorldMax THEN R(0)
    ELSE RAdd(IF c \in reg THEN SegOverlap(x, y, c) ELSE R(0),
              SegClipLength(x, y, reg, c + 1))

RECURSIVE ClipLength(_, _)
ClipLength(vs, reg) ==
    IF Len(vs) < 2 THEN R(0)
    ELSE RAdd(SegClipLength(vs[1], vs[2], reg, 0), ClipLength(Tail(vs), reg))

\* GeoSeries.length
Length(g) == ClipLength(g.verts, g.mask)

\* the polyline meets the closed region
Touches(vs, reg) ==
    \E i \in 1..(Len(vs) - 1) : \E c \in reg :
        RLe(RMin(vs[i], vs[i + 1]), R(c + 1)) /\ RLe(R(c), RMax(vs[i], vs[i + 1]))

\* some point of the polyline lies outside the closed region
Leaves(vs, reg) ==
    \E i \in 1..(Len(vs) - 1) :
        \/ \E c \in Cells \ reg : SegOverlap(vs[i], vs[i + 1], c) # R(0)
        \/ ~ \E c \in reg : RLe(R(c), vs[i]) /\ RLe(vs[i], R(c + 1))

-----------------------------------------------------------------------------
(* xbuild/qaqc.py : FLE_QAQC, the pure parts *)

SetMin(S) == CHOOSE x \in S : \A y \in S : x <= y
SetMax(S) == CHOOSE x \in S : \A y \in S : y <= x

\* variant: int(p / q), rounding down
PyRound_Down(p, q) == p \div q

\* Python 3 round(p / q) for p >= 0, q > 0: to nearest, halves to even
PyRound(p, q) ==
    LET f == p \div q
        r == p % q
    IN  IF 2 * r < q THEN f
        ELSE IF 2 * r > q THEN f + 1
        ELSE IF f % 2 = 0 THEN f ELSE f + 1

\* variant: range(num_vert) in place of range(num_vert + 1)
RedistributeVertices_ShortRange(geom, distance) ==
    LET length == geom.hi - geom.lo
        n0 == PyRound(length, distance)
        num_vert == IF n0 = 0 THEN 1 ELSE n0
    IN  [n \in 1..num_vert |-> RAdd(R(geom.lo), Rat((n - 1) * length, num_vert))]

\* _redistribute_vertices for a LineString from geom.lo to geom.hi
RedistributeVertices(geom, distance) ==
    LET length == geom.hi - geom.lo
        n0 == PyRound(length, distance)
        num_vert == IF n0 = 0 THEN 1 ELSE n0
    IN  [n \in 1..(num_vert + 1) |-> RAdd(R(geom.lo), Rat((n - 1) * length, num_vert))]

\* variant: an open ball
QueryBallPoint_OpenBall(all_pnts, v, r) ==
    SelectSeq(all_pnts, LAMBDA p : RLt(RAbs(RSub(p, v)), R(r)))

\* kdt.query_ball_point(v, r): the points at distance <= r of v
QueryBallPoint(all_pnts, v, r) ==
    SelectSeq(all_pnts, LAMBDA p : RLe(RAbs(RSub(p, v)), R(r)))

\* np.mean
Mean(vls) == FDiv(RSum(vls), R(Len(vls)))

\* variant: the KDTree holds the vertices of the longest line only
AverageVertices_SkeletonOnly(all_pnts, pnts, r) ==
    [i \in DOMAIN pnts |-> Mean(QueryBallPoint(pnts, pnts[i], r))]

\* lines 393-400: one averaged vertex per vertex of pnts
AverageVertices(all_pnts, pnts, r) ==
    [i \in DOMAIN pnts |-> Mean(QueryBallPoint(all_pnts, pnts[i], r))]

\* GeoSeries.buffer(d) of a line, where it covers the axis
Buffer(geom, d) == [lo |-> geom.lo - d, hi |-> geom.hi + d]

\* variant: the union of the buffers is never split into its parts
Overlaps_NeverSplit(a, b) == TRUE

\* two buffer polygons share more than boundary points
Overlaps(a, b) == a.lo < b.hi /\ b.lo < a.hi

RECURSIVE Grow(_, _)
Grow(iv, bs) ==
    LET more == {b \in bs : Overlaps(iv, b)} \cup {iv}
        nxt == [lo |-> SetMin({b.lo : b \in more}), hi |-> SetMax({b.hi : b \in more})]
    IN  IF nxt = iv THEN iv ELSE Grow(nxt, bs)

RECURSIVE SortByLo(_)
SortByLo(S) ==
    IF S = {} THEN <<>>
    ELSE LET m == CHOOSE a \in S : \A b \in S : a.lo <= b.lo
         IN  <<m>> \o SortByLo(S \ {m})

\* variant: the buffers are not united
UnionAllExplode_NoUnion(bs) == SortByLo(bs)

\* GeoSeries(buffers.union_all()).explode(): the connected parts of the union
UnionAllExplode(bs) == SortByLo({Grow(b, bs) : b \in bs})

\* lns_sub.clip(buff): the rows whose line meets the polygon buff
ClipToBuff(lns_sub, buff) ==
    SelectSeq(lns_sub, LAMBDA l : l.geometry.lo <= buff.hi /\ buff.lo <= l.geometry.hi)

RECURSIVE Unique(_)
Unique(s) ==
    IF s = <<>> THEN <<>>
    ELSE LET u == Unique(SubSeq(s, 1, Len(s) - 1))
         IN  IF s[Len(s)] \in Range(u) THEN u ELSE Append(u, s[Len(s)])

\* variant: the rows marked for deletion are kept
LnsSub_KeepsDeleted(lnk, fc, id) ==
    SelectSeq(lnk, LAMBDA l : /\ l.FeatureCategory = fc
                              /\ StrContainsNoCase(l.IncidentName, id))

\* line 372: the rows of one category of one incident that are not marked for deletion
LnsSub(lnk, fc, id) ==
    SelectSeq(lnk, LAMBDA l : /\ l.FeatureCategory = fc
                              /\ l.DeleteThis = "No"
                              /\ StrContainsNoCase(l.IncidentName, id))

\* lines 370-377: the Actions of incident id, in the order the loops visit them
IncidentActions(lnk, id, dist) ==
    LET fcs == Unique([i \in DOMAIN lnk |-> lnk[i].FeatureCategory])
        OfFc(fc) ==
            LET lns_sub == LnsSub(lnk, fc, id)
                buffs == UnionAllExplode({Buffer(lns_sub[i].geometry, dist) : i \in DOMAIN lns_sub})
            IN  [b \in DOMAIN buffs |-> [fc |-> fc, lns |-> ClipToBuff(lns_sub, buffs[b])]]
    IN  Flatten([f \in DOMAIN fcs |-> OfFc(fcs[f])])

\* df.clip(mask): the rows that meet mask, cut to it
ClipRows(df, mask, label) ==
    LET keep == SelectSeq([i \in DOMAIN df |-> i], LAMBDA i : Touches(df[i].geometry.verts, mask))
    IN  [k \in DOMAIN keep |->
            [src |-> keep[k],
             poly_IncidentName |-> df[keep[k]].poly_IncidentName,
             FeatureCategory |-> df[keep[k]].FeatureCategory,
             FirelineEngagement |-> label,
             geometry |-> Geom(df[keep[k]].geometry.verts, df[keep[k]].geometry.mask \cap mask)]]

\* df.overlay(mask, how='difference'): the rows that leave mask, cut to its outside
DifferenceRows(df, mask, label) ==
    LET keep == SelectSeq([i \in DOMAIN df |-> i], LAMBDA i : Leaves(df[i].geometry.verts, mask))
    IN  [k \in DOMAIN keep |->
            [src |-> keep[k],
             poly_IncidentName |-> df[keep[k]].poly_IncidentName,
             FeatureCategory |-> df[keep[k]].FeatureCategory,
             FirelineEngagement |-> label,
             geometry |-> Geom(df[keep[k]].geometry.verts, df[keep[k]].geometry.mask \ mask)]]

\* variant: the interior zone keeps the band along the boundary
Zones_NoDifference(pgeo, dist) ==
    LET hbuff == BufferBoundary(Boundary(pgeo), dist)
        bbuff == pgeo
    IN  [hbuff |-> hbuff, bbuff |-> bbuff, nbuff |-> bbuff \cup hbuff]

\* lines 314-316: hbuff, bbuff and nbuff of _label_control
Zones(pgeo, dist) ==
    LET hbuff == BufferBoundary(Boundary(pgeo), dist)
        bbuff == pgeo \ hbuff
    IN  [hbuff |-> hbuff, bbuff |-> bbuff, nbuff |-> bbuff \cup hbuff]

\* variant: the labels of the band and of the interior exchanged
LabelControl_LabelsSwapped(df, pgeo, dist) ==
    LET z == Zones(pgeo, dist)
    IN  ClipRows(df, z.hbuff, BurntOver) \o ClipRows(df, z.bbuff, Held)
            \o DifferenceRows(df, z.nbuff, NotEngaged)

\* _label_control
LabelControl(df, pgeo, dist) ==
    LET z == Zones(pgeo, dist)
    IN  ClipRows(df, z.hbuff, Held) \o ClipRows(df, z.bbuff, BurntOver)
            \o DifferenceRows(df, z.nbuff, NotEngaged)

\* gr_df: the summed length of each engagement label present in df
GroupBySum(df) ==
    LET len == [i \in DOMAIN df |-> Length(df[i].geometry)]
        labels == {df[i].FirelineEngagement : i \in DOMAIN df}
        idx(l) == SelectSeq([i \in DOMAIN df |-> i], LAMBDA i : df[i].FirelineEngagement = l)
    IN  [total |-> RSum(len),
         groups |-> {[label |-> l, length |-> RSum([k \in DOMAIN idx(l) |-> len[idx(l)[k]]])] : l \in labels}]

RECURSIVE RSumSet(_)
RSumSet(S) ==
    IF S = {} THEN R(0)
    ELSE LET x == CHOOSE y \in S : TRUE IN RAdd(x.length, RSumSet(S \ {x}))

\* gr_df[gr_df.index.str.contains(pat)]['length'].sum()
GroupLength(gr_df, alts) ==
    RSumSet({g \in gr_df : StrContainsAny(g.label, alts)})

\* variant: the pattern of Er in place of the pattern of HTr
HeldLength_AlsoBurntOver(gr_df) == GroupLength(gr_df, {Held, BurntOver})

HeldLength(gr_df) == GroupLength(gr_df, {Held})
BurntOverLength(gr_df) == GroupLength(gr_df, {BurntOver})
NotEngagedLength(gr_df) == GroupLength(gr_df, {NotEngaged})
EngagedLength(gr_df) == GroupLength(gr_df, {Held, BurntOver})

\* the locals of _get_metrics (gr_df is computed once)
MetricsLocals(df, pgeo) ==
    CHOOSE m \in {[TotalLine |-> g.total,
                   held |-> HeldLength(g.groups),
                   burnt |-> BurntOverLength(g.groups),
                   noteng |-> NotEngagedLength(g.groups),
                   engaged |-> EngagedLength(g.groups),
                   fperm |-> PermLength(pgeo),
                   farea |-> PermArea(pgeo)] : g \in {GroupBySum(df)}} : TRUE

\* out_dic of _get_metrics, with the two columns _average_lines adds to it
OutDic(m, pgeo, id) ==
    [HTr |-> FDiv(m.held, m.TotalLine),
     TR |-> FDiv(m.TotalLine, m.fperm),
     Er |-> FDiv(m.engaged, m.TotalLine),
     HER |-> FDiv(m.held, m.engaged),
     BTR |-> FDiv(m.burnt, m.TotalLine),
     NeTr |-> FDiv(m.noteng, m.TotalLine),
     PrAr |-> FDiv(m.fperm, m.farea),
     IncidentName |-> id,
     geometry |-> pgeo]

\* _get_metrics
GetMetrics(df, pgeo, id) ==
    CHOOSE r \in {[out_dic |-> OutDic(m, pgeo, id)] @@ m : m \in {MetricsLocals(df, pgeo)}} : TRUE

\* variant: HER left undefined
ZeroMetrics_UndefinedHER(pgeo, id) ==
    [HTr |-> R(0), TR |-> R(0), Er |-> R(0), HER |-> NaN, BTR |-> R(0),
     NeTr |-> R(0), PrAr |-> R(0), IncidentName |-> id, geometry |-> pgeo]

\* lines 424-434: the row of an incident without Actions
ZeroMetrics(pgeo, id) ==
    [HTr |-> R(0), TR |-> R(0), Er |-> R(0), HER |-> R(0), BTR |-> R(0),
     NeTr |-> R(0), PrAr |-> R(0), IncidentName |-> id, geometry |-> pgeo]

-----------------------------------------------------------------------------
(* xbuild/qaqc.py : FLE_QAQC._average_lines *)

NameA == <<"a">>
NameB == <<"b">>
NameAB == <<"a", "b">>

\* the perimeter keys, in the order dissolve sorts them
KeyOrder == <<NameA, NameAB, NameB>>

\* variant: the rows are not grouped by key
Dissolve_NoGrouping(perm) ==
    [i \in DOMAIN perm |-> [poly_IncidentName |-> perm[i].poly_IncidentName, geometry |-> perm[i].geometry]]

\* outperm[['geometry', fld_name]].dissolve(fld_name): one row per key, sorted
Dissolve(perm) ==
    LET keys == SelectSeq(KeyOrder, LAMBDA k : \E i \in DOMAIN perm : perm[i].poly_IncidentName = k)
    IN  [k \in DOMAIN keys |->
            [poly_IncidentName |-> keys[k],
             geometry |-> UNION {perm[i].geometry : i \in {j \in DOMAIN perm : perm[j].poly_IncidentName = keys[k]}}]]

outperm_lnk == Dissolve(outperm)

\* the line meets the polygon
Intersects(geom, reg) == \E c \in reg : geom.lo <= c + 1 /\ c <= geom.hi

\* left.sjoin(right): one row per (line, polygon met by the line)
SJoin(left, right) ==
    Flatten([i \in DOMAIN left |->
        LET hits == SelectSeq(right, LAMBDA p : Intersects(left[i].geometry, p.geometry))
        IN  [h \in DOMAIN hits |->
                [id |-> left[i].id,
                 IncidentName |-> left[i].IncidentName,
                 FeatureCategory |-> left[i].FeatureCategory,
                 DeleteThis |-> left[i].DeleteThis,
                 geometry |-> left[i].geometry,
                 poly_IncidentName |-> hits[h].poly_IncidentName]]])

\* variant: null names are left as they are
AssignIncidentName_Never(lnk) == lnk

\* line 356: a null IncidentName takes the key of the joined perimeter
AssignIncidentName(lnk) ==
    [i \in DOMAIN lnk |->
        IF lnk[i].IncidentName = NULL
        THEN [lnk[i] EXCEPT !.IncidentName = lnk[i].poly_IncidentName]
        ELSE lnk[i]]

\* lines 355-356
Associate(events, lnkperm) ==
    AssignIncidentName(
        SJoin(SelectSeq(events, LAMBDA l : StrContainsNoCase(l.FeatureCategory, complete)),
              lnkperm))

\* lines 352-361
Start ==
    /\ pc = "start"
    /\ opr_event_lnk' = Associate(opr_event, outperm_lnk)
    /\ rw' = 1
    /\ cnt_lns_lst' = <<>>
    /\ perm_list' = <<>>
    /\ geo_lst' = <<>>
    /\ fc_lst' = <<>>
    /\ pc' = "loop"
    /\ UNCHANGED <<opr_event, outperm, perm_dist, line_dist, act, df2, gm, fle, snap, clean, reproc, rest>>

CurId == outperm_lnk[rw].poly_IncidentName
CurGeo == outperm_lnk[rw].geometry
CurActions == IncidentActions(opr_event_lnk, CurId, line_dist)

\* lines 300-311: _redistribute_vertices handles the geometry (it raises ValueError otherwise)
Handled(geom) == geom.type = "LineString"

\* variant: sort_values('meters').iloc[:1], the shortest row
Longest_First(lns) ==
    {i \in DOMAIN lns : \A j \in DOMAIN lns :
        lns[i].geometry.hi - lns[i].geometry.lo <= lns[j].geometry.hi - lns[j].geometry.lo}

\* lines 388-389: the rows of lns that sort_values('meters') may leave last
Longest(lns) ==
    {i \in DOMAIN lns : \A j \in DOMAIN lns :
        lns[j].geometry.hi - lns[j].geometry.lo <= lns[i].geometry.hi - lns[i].geometry.lo}

\* lines 376-407: one pass of the innermost loop, which averages one Action
AverageAction ==
    /\ pc = "loop"
    /\ rw <= Len(outperm_lnk)
    /\ Len(geo_lst) < Len(CurActions)
    /\ \E a \in {CurActions[Len(geo_lst) + 1]} :
       \E dlns \in {[i \in DOMAIN a.lns |-> RedistributeVertices(a.lns[i].geometry, line_dist)]} :
       \E all_pnts \in {Flatten(dlns)} :
       \E l \in Longest(a.lns) :
       \E t \in {AverageVertices(all_pnts, dlns[l], line_dist)} :
            /\ \A i \in DOMAIN a.lns : Handled(a.lns[i].geometry)
            /\ act' = <<[fc |-> a.fc, lns |-> a.lns, dlns |-> dlns, lns_l |-> l, t |-> t]>>
            /\ geo_lst' = Append(geo_lst, Geom(t, Cells))
            /\ fc_lst' = Append(fc_lst, a.fc)
    /\ UNCHANGED <<opr_event, outperm, perm_dist, line_dist, pc, opr_event_lnk, rw,
                   df2, gm, cnt_lns_lst, perm_list, fle, snap, clean, reproc, rest>>

\* line 412
IncidentFrame ==
    [i \in DOMAIN geo_lst |->
        [poly_IncidentName |-> CurId, FeatureCategory |-> fc_lst[i], geometry |-> geo_lst[i]]]

\* variant: the lines are classified as soon as one Action is averaged
LabelIncident_Early ==
    /\ pc = "loop"
    /\ rw <= Len(outperm_lnk)
    /\ Len(fc_lst) > 0
    /\ df2' = LabelControl(IncidentFrame, CurGeo, perm_dist)
    /\ cnt_lns_lst' = Append(cnt_lns_lst, df2')
    /\ pc' = "metrics"
    /\ UNCHANGED <<opr_event, outperm, perm_dist, line_dist, opr_event_lnk, rw, act,
                   geo_lst, fc_lst, gm, perm_list, fle, snap, clean, reproc, rest>>

\* lines 411-415: the incident has Actions; its lines are classified
LabelIncident ==
    /\ pc = "loop"
    /\ rw <= Len(outperm_lnk)
    /\ Len(geo_lst) = Len(CurActions)
    /\ Len(fc_lst) > 0
    /\ df2' = LabelControl(IncidentFrame, CurGeo, perm_dist)
    /\ cnt_lns_lst' = Append(cnt_lns_lst, df2')
    /\ pc' = "metrics"
    /\ UNCHANGED <<opr_event, outperm, perm_dist, line_dist, opr_event_lnk, rw, act,
                   geo_lst, fc_lst, gm, perm_list, fle, snap, clean, reproc, rest>>

\* lines 417-420, and the next incident
MetricsIncident ==
    /\ pc = "metrics"
    /\ gm' = <<GetMetrics(df2, CurGeo, CurId)>>
    /\ perm_list' = Append(perm_list, gm'[1].out_dic)
    /\ rw' = rw + 1
    /\ geo_lst' = <<>>
    /\ fc_lst' = <<>>
    /\ pc' = "loop"
    /\ UNCHANGED <<opr_event, outperm, perm_dist, line_dist, opr_event_lnk, act, df2,
                   cnt_lns_lst, fle, snap, clean, reproc, rest>>

\* lines 421-435: the incident has no Action
EmptyIncident ==
    /\ pc = "loop"
    /\ rw <= Len(outperm_lnk)
    /\ Len(geo_lst) = Len(CurActions)
    /\ Len(fc_lst) = 0
    /\ cnt_lns_lst' = Append(cnt_lns_lst, <<>>)
    /\ perm_list' = Append(perm_list, ZeroMetrics(CurGeo, CurId))
    /\ rw' = rw + 1
    /\ UNCHANGED <<opr_event, outperm, perm_dist, line_dist, pc, opr_event_lnk, act,
                   geo_lst, fc_lst, df2, gm, fle, snap, clean, reproc, rest>>

\* lines 380-381 and 310-311: densifying a line of the next Action raises ValueError,
\* which nothing in _average_lines catches; the call ends without a result
RaiseUnhandledGeometry ==
    /\ pc = "loop"
    /\ rw <= Len(outperm_lnk)
    /\ Len(geo_lst) < Len(CurActions)
    /\ \E a \in {CurActions[Len(geo_lst) + 1]} :
            \E i \in DOMAIN a.lns : ~ Handled(a.lns[i].geometry)
    /\ pc' = "raised"
    /\ UNCHANGED <<opr_event, outperm, perm_dist, line_dist, opr_event_lnk, rw, act,
                   geo_lst, fc_lst, df2, gm, cnt_lns_lst, perm_list, fle, snap, clean, reproc, rest>>

\* line 438
Return ==
    /\ pc = "loop"
    /\ rw > Len(outperm_lnk)
    /\ pc' = "done"
    /\ UNCHANGED <<opr_event, outperm, perm_dist, line_dist, opr_event_lnk, rw, act,
                   geo_lst, fc_lst, df2, gm, cnt_lns_lst, perm_list, fle, snap, clean, reproc, rest>>

Next ==
    \/ Start
    \/ AverageAction
    \/ LabelIncident
    \/ MetricsIncident
    \/ EmptyIncident
    \/ Return

-----------------------------------------------------------------------------
(* The inputs *)

LineString(lo, hi) == [type |-> "LineString", lo |-> lo, hi |-> hi]

Line(name, fc, del, geom) ==
    [IncidentName |-> name, FeatureCategory |-> fc, DeleteThis |-> del, geometry |-> geom]

\* rows that differ in their geometry, and rows that differ in their attributes
LineRows ==
    SortByLo({[lo |-> 10 * g[1] + g[2], row |-> Line(NameA, CompletedDozerLine, "No", LineString(g[1], g[2]))] :
                g \in {<<0, 1>>, <<0, 5>>, <<4, 6>>, <<2, 9>>, <<8, 10>>}})
    \o SortByLo({[lo |-> x[4], row |-> Line(x[1], x[2], x[3], LineString(2, 5))] :
                x \in {<<NULL, CompletedDozerLine, "No", 1>>, <<NULL, CompletedHandLine, "No", 2>>,
                       <<NULL, CompletedDozerLine, "Yes", 3>>, <<NULL, PlannedHandLine, "No", 4>>,
                       <<NameA, CompletedHandLine, "No", 5>>, <<NameA, CompletedDozerLine, "Yes", 6>>,
                       <<NameA, PlannedHandLine, "No", 7>>, <<NameB, CompletedDozerLine, "No", 8>>,
                       <<NameB, CompletedHandLine, "No", 9>>, <<NameB, CompletedDozerLine, "Yes", 10>>}})

\* the tables of at most n rows drawn from rows, in the order of rows
Tables(rows, n) ==
    LET idx == UNION {[1..k -> DOMAIN rows] : k \in 0..n}
    IN  {[i \in DOMAIN s |-> [id |-> i] @@ rows[s[i]].row] :
            s \in {q \in idx : \A i \in DOMAIN q : \A j \in DOMAIN q : i < j => q[i] <= q[j]}}

Perimeter(name, lo, hi) == [poly_IncidentName |-> name, geometry |-> Box(lo, hi)]

PerimeterTables ==
    {<<Perimeter(NameA, 3, 7)>>,
     <<Perimeter(NameA, 3, 7), Perimeter(NameB, 8, WorldMax)>>,
     <<Perimeter(NameB, 8, WorldMax), Perimeter(NameA, 3, 5), Perimeter(NameA, 5, 7)>>}

Dists == {1, 2}

InitLocals ==
    /\ pc = "start"
    /\ opr_event_lnk = <<>>
    /\ rw = 0
    /\ act = <<>>
    /\ geo_lst = <<>>
    /\ fc_lst = <<>>
    /\ df2 = <<>>
    /\ gm = <<>>
    /\ cnt_lns_lst = <<>>
    /\ perm_list = <<>>
    /\ fle = <<>>
    /\ snap = <<>>
    /\ clean = <<>>
    /\ reproc = <<>>
    /\ rest = <<>>

Init ==
    /\ opr_event \in Tables(LineRows, MaxLines)
    /\ outperm \in PerimeterTables
    /\ perm_dist \in Dists
    /\ line_dist \in Dists
    /\ InitLocals

Spec == Init /\ [][Next]_vars

\* one (incident, category) set of at most MaxSegs segments
SegmentRows ==
    SortByLo({[lo |-> 100 * g[1] + g[2], row |-> Line(NameA, CompletedDozerLine, "No", LineString(g[1], g[2]))] :
                g \in {h \in (0..MaxSegEnd) \X (0..MaxSegEnd) : h[1] < h[2] /\ h[2] - h[1] <= MaxSegLen}})

InitAction ==
    /\ opr_event \in Tables(SegmentRows, MaxSegs)
    /\ outperm = <<Perimeter(NameA, 0, WorldMax)>>
    /\ perm_dist = 1
    /\ line_dist \in Dists
    /\ InitLocals

SpecAction == InitAction /\ [][Next]_vars

-----------------------------------------------------------------------------
(* xbuild/qaqc.py : FLE_QAQC._assign_snap_dissolve *)

Upper(c) == CASE c = "a" -> "A" [] c = "b" -> "B" [] c = "c" -> "C" [] OTHER -> c
UpperSeq(s) == [i \in DOMAIN s |-> Upper(s[i])]

\* str.strip(): leading and trailing white space removed
RECURSIVE LStrip(_)
LStrip(s) == IF s # <<>> /\ Head(s) = " " THEN LStrip(Tail(s)) ELSE s

RECURSIVE RStrip(_)
RStrip(s) == IF s # <<>> /\ s[Len(s)] = " " THEN RStrip(SubSeq(s, 1, Len(s) - 1)) ELSE s

Strip(s) == LStrip(RStrip(s))

\* a coordinate rounded to the grid of size dist (coordinates are not negative)
SnapCoord(x, dist) == ((2 * x + dist) \div (2 * dist)) * dist

\* geometry.set_precision(dist); a line whose ends meet has collapsed
SetPrecision(geom, dist) ==
    [geom EXCEPT !.lo = SnapCoord(geom.lo, dist), !.hi = SnapCoord(geom.hi, dist)]

\* lines 446-447 on the rows of opr_event_lnk
SnapAndClean(lnk, dist) ==
    [i \in DOMAIN lnk |->
        [lnk[i] EXCEPT !.geometry = SetPrecision(lnk[i].geometry, dist),
                       !.IncidentName = Strip(UpperSeq(lnk[i].IncidentName))]]

\* dissolve(by=['IncidentName','FeatureCategory']): one row per pair of keys, the
\* union of the group's lines, and the first value of every other column
DissolveBy(lnk) ==
    {[IncidentName |-> lnk[i].IncidentName,
      FeatureCategory |-> lnk[i].FeatureCategory,
      geometry |-> UNION {Box(lnk[j].geometry.lo, lnk[j].geometry.hi) :
                            j \in {k \in DOMAIN lnk :
                                    /\ lnk[k].IncidentName = lnk[i].IncidentName
                                    /\ lnk[k].FeatureCategory = lnk[i].FeatureCategory}},
      id |-> lnk[i].id,
      DeleteThis |-> lnk[i].DeleteThis,
      poly_IncidentName |-> lnk[i].poly_IncidentName] :
        i \in {k \in DOMAIN lnk :
                \A j \in 1..(k - 1) :
                    \/ lnk[j].IncidentName # lnk[k].IncidentName
                    \/ lnk[j].FeatureCategory # lnk[k].FeatureCategory}}

\* lines 440-448
AssignSnapDissolve ==
    /\ pc = "start"
    /\ \E dist \in Dists :
        \E lnk \in {SnapAndClean(Associate(opr_event, outperm_lnk), dist)} :
            /\ opr_event_lnk' = lnk
            /\ snap' = <<[dist |-> dist, rows |-> DissolveBy(lnk)]>>
    /\ pc' = "snapped"
    /\ UNCHANGED <<opr_event, outperm, perm_dist, line_dist, rw, act, geo_lst, fc_lst,
                   df2, gm, cnt_lns_lst, perm_list, fle, clean, reproc, rest>>

NameSpaceA == <<" ", "a">>
NameUpperB == <<"B", " ">>

\* lines whose IncidentName is null, plain, or written with capitals and spaces
SnapRows ==
    <<[row |-> Line(NULL, CompletedDozerLine, "No", LineString(2, 5))],
      [row |-> Line(NameA, CompletedDozerLine, "No", LineString(4, 6))],
      [row |-> Line(NameSpaceA, CompletedDozerLine, "No", LineString(3, 4))],
      [row |-> Line(NameUpperB, CompletedHandLine, "No", LineString(2, 9))],
      [row |-> Line(NULL, CompletedHandLine, "No", LineString(8, 10))],
      [row |-> Line(NameB, PlannedHandLine, "No", LineString(8, 10))]>>

NextSnap == Next \/ AssignSnapDissolve

InitSnap ==
    /\ opr_event \in Tables(SnapRows, MaxLines)
    /\ outperm \in PerimeterTables
    /\ perm_dist \in Dists
    /\ line_dist \in Dists
    /\ InitLocals

SpecSnap == InitSnap /\ [][NextSnap]_vars

\* a geometry that is neither a LineString nor a MultiLineString
Point(x) == [lo |-> x, hi |-> x, type |-> "Point"]

\* lines of two incidents, some of them with a geometry _redistribute_vertices rejects,
\* one of them a LineString whose two vertices coincide
UnhandledRows ==
    <<[row |-> Line(NameA, CompletedDozerLine, "No", LineString(4, 6))],
      [row |-> Line(NameA, CompletedDozerLine, "No", Point(4))],
      [row |-> Line(NameA, CompletedHandLine, "No", Point(6))],
      [row |-> Line(NameB, CompletedDozerLine, "No", LineString(8, 10))],
      [row |-> Line(NameB, CompletedDozerLine, "No", Point(9))],
      [row |-> Line(NameB, CompletedDozerLine, "Yes", Point(9))],
      [row |-> Line(NameA, CompletedDozerLine, "No", LineString(5, 5))]>>

NextUnhandled == Next \/ RaiseUnhandledGeometry

InitUnhandled ==
    /\ opr_event \in Tables(UnhandledRows, MaxLines)
    /\ outperm \in PerimeterTables
    /\ perm_dist \in Dists
    /\ line_dist \in Dists
    /\ InitLocals

SpecUnhandled == InitUnhandled /\ [][NextUnhandled]_vars

\* lines of incidents of which one's name is part of another's
NamedRows ==
    <<[row |-> Line(NameA, CompletedDozerLine, "No", LineString(4, 6))],
      [row |-> Line(NameAB, CompletedDozerLine, "No", LineString(8, 10))],
      [row |-> Line(NameAB, CompletedHandLine, "No", LineString(2, 9))],
      [row |-> Line(NULL, CompletedDozerLine, "No", LineString(8, 10))],
      [row |-> Line(NameB, CompletedDozerLine, "No", LineString(9, 10))]>>

NamedPerimeters ==
    {<<Perimeter(NameA, 3, 7), Perimeter(NameAB, 8, WorldMax)>>,
     <<Perimeter(NameA, 3, 7), Perimeter(NameB, 8, WorldMax)>>,
     <<Perimeter(NameAB, 8, WorldMax)>>}

InitNames ==
    /\ opr_event \in Tables(NamedRows, MaxLines)
    /\ outperm \in NamedPerimeters
    /\ perm_dist \in Dists
    /\ line_dist \in Dists
    /\ InitLocals

SpecNames == InitNames /\ [][Next]_vars

-----------------------------------------------------------------------------
(* The flag block of Tool/4_FLEMetrics.py (lines 424-456) *)

\* FLE_Flag texts
FlagNone == "None"
FlagRange == "HTR ER HER BTR or NETR fall outside of possible range"
FlagBoth ==
    "Check data as TR value is extreme. Also, HTR ER HER BTR or NETR fall outside of possible range. "
FlagTR == "Check data as TR value is in top 95 percentile."

\* the TR threshold of lines 450 and 454
TRExtreme == Rat(13, 4)

\* repr of a str without quotes in it
PyRepr(x) == "'" \o x \o "'"

\* str of a list of str
RECURSIVE PyJoinRepr(_)
PyJoinRepr(l) ==
    IF l = <<>> THEN ""
    ELSE IF Len(l) = 1 THEN PyRepr(l[1])
    ELSE PyRepr(l[1]) \o ", " \o PyJoinRepr(Tail(l))

PyStrList(l) == "[" \o PyJoinRepr(l) \o "]"

\* CalculateField(OutputFLEMetricsName, "FLE_Flag", text): every row gets text
CalculateFlag(text) == [i \in 1..fle.rows |-> text]

\* variant: only values above 1 are outside the range
OutsideRange_AboveOnly(v) == RLt(R(1), v)

\* line 443: value > 1 or value < 0
OutsideRange(v) == RLt(R(1), v) \/ RLt(v, R(0))

pipelineVars == <<opr_event, outperm, perm_dist, line_dist, pc, opr_event_lnk, rw, act,
                  geo_lst, fc_lst, df2, gm, cnt_lns_lst, perm_list, snap, clean, reproc, rest>>

\* lines 425-426
AddFlagField ==
    /\ fle.pc = "addfield"
    /\ fle' = [fle EXCEPT !.FLE_Flag = CalculateFlag(FlagNone), !.pc = "cursor"]
    /\ UNCHANGED pipelineVars

\* lines 428-441: the values of the first row
ReadFirstRow ==
    /\ fle.pc = "cursor"
    /\ fle' = [fle EXCEPT !.HTRvalue = <<fle.table.HTr>>,
                          !.TRvalue = <<fle.table.TR>>,
                          !.ERvalue = <<fle.table.ER>>,
                          !.HERvalue = <<fle.table.HER>>,
                          !.BTRvalue = <<fle.table.BTR>>,
                          !.NETRvalue = <<fle.table.NETR>>,
                          !.pc = "range"]
    /\ UNCHANGED pipelineVars

\* lines 443-445
RangeCheck ==
    /\ fle.pc = "range"
    /\ fle' = [fle EXCEPT
                !.FLE_Flag =
                    IF \/ OutsideRange(fle.HTRvalue[1]) \/ OutsideRange(fle.ERvalue[1])
                       \/ OutsideRange(fle.HERvalue[1]) \/ OutsideRange(fle.BTRvalue[1])
                       \/ OutsideRange(fle.NETRvalue[1])
                    THEN CalculateFlag(FlagRange)
                    ELSE @,
                !.pc = "flagvalue"]
    /\ UNCHANGED pipelineVars

\* lines 447-448: the list of the FLE_Flag values of all rows
ReadFlagField ==
    /\ fle.pc = "flagvalue"
    /\ fle' = [fle EXCEPT !.FlagFieldValue = <<fle.FLE_Flag>>, !.pc = "both"]
    /\ UNCHANGED pipelineVars

\* lines 450-452
CheckRangeAndTR ==
    /\ fle.pc = "both"
    /\ fle' = [fle EXCEPT
                !.FLE_Flag =
                    IF /\ PyStrList(fle.FlagFieldValue[1]) = FlagRange
                       /\ RLt(TRExtreme, fle.TRvalue[1])
                    THEN CalculateFlag(FlagBoth)
                    ELSE @,
                !.pc = "tr"]
    /\ UNCHANGED pipelineVars

\* lines 454-456
CheckTR ==
    /\ fle.pc = "tr"
    /\ fle' = [fle EXCEPT
                !.FLE_Flag =
                    IF /\ PyStrList(fle.FlagFieldValue[1]) = FlagNone
                       /\ RLt(TRExtreme, fle.TRvalue[1])
                    THEN CalculateFlag(FlagTR)
                    ELSE @,
                !.pc = "export"]
    /\ UNCHANGED pipelineVars

NextFlag ==
    \/ AddFlagField
    \/ ReadFirstRow
    \/ RangeCheck
    \/ ReadFlagField
    \/ CheckRangeAndTR
    \/ CheckTR

\* the output table merges the Held, Burned Over and Not Engaged classes, each of
\* at least one row
MinRows == 3
MaxRows == 4

\* the values a ratio field of the table takes
RatioValues == {Rat(-1, 4), R(0), R(1), Rat(5, 4)}
TRValues == {R(1), TRExtreme, R(4)}

InitFlag ==
    /\ opr_event = <<>>
    /\ outperm = <<>>
    /\ perm_dist = 1
    /\ line_dist = 1
    /\ pc = "start"
    /\ opr_event_lnk = <<>>
    /\ rw = 0
    /\ act = <<>>
    /\ geo_lst = <<>>
    /\ fc_lst = <<>>
    /\ df2 = <<>>
    /\ gm = <<>>
    /\ cnt_lns_lst = <<>>
    /\ perm_list = <<>>
    /\ snap = <<>>
    /\ clean = <<>>
    /\ reproc = <<>>
    /\ rest = <<>>
    /\ \E rows \in MinRows..MaxRows :
       \E table \in [HTr : RatioValues, TR : TRValues, ER : RatioValues,
                     HER : RatioValues, BTR : RatioValues, NETR : RatioValues] :
            fle = [pc |-> "addfield", rows |-> rows, table |-> table, FLE_Flag |-> <<>>,
                   HTRvalue |-> <<>>, TRvalue |-> <<>>, ERvalue |-> <<>>, HERvalue |-> <<>>,
                   BTRvalue |-> <<>>, NETRvalue |-> <<>>, FlagFieldValue |-> <<>>]

SpecFlag == InitFlag /\ [][NextFlag]_vars

-----------------------------------------------------------------------------
(* Tool/2_NIFC_Fireline_QAQC.py : cleaning of the attribute data (lines 328-407) *)

\* CalculateField "!f![:-1]" on the layer "f LIKE '% '"
TrimEndOnce(s) ==
    IF Len(s) > 0 /\ s[Len(s)] = " " THEN SubSeq(s, 1, Len(s) - 1) ELSE s

\* CalculateField "!f![1:]" on the layer "f LIKE ' %'"
TrimStartOnce(s) ==
    IF Len(s) > 0 /\ s[1] = " " THEN SubSeq(s, 2, Len(s)) ELSE s

\* str.title()
Title(s) ==
    [i \in DOMAIN s |->
        IF i > 1 /\ s[i - 1] \in {"a", "b", "c", "A", "B", "C"} THEN Lower(s[i]) ELSE Upper(s[i])]

\* a value with k spaces before and m spaces after its text
Pad(k, text, m) == [i \in 1..k |-> " "] \o text \o [i \in 1..m |-> " "]

toolVars == <<opr_event, outperm, perm_dist, line_dist, pc, opr_event_lnk, rw, act,
              geo_lst, fc_lst, df2, gm, cnt_lns_lst, perm_list, fle, snap>>

\* lines 331-334
TrimPerimeterName ==
    /\ clean.pc = "perimeter name"
    /\ clean' = [clean EXCEPT
                    !.attr_IncidentName = TrimStartOnce(TrimEndOnce(@)),
                    !.pc = "perimeter irwin"]
    /\ UNCHANGED <<toolVars, reproc, rest>>

\* lines 362-367
TrimPerimeterIrwin ==
    /\ clean.pc = "perimeter irwin"
    /\ clean' = [clean EXCEPT
                    !.attr_IrwinID = TrimStartOnce(TrimEndOnce(@)),
                    !.attr_IncidentName = Title(@),
                    !.pc = "ops name"]
    /\ UNCHANGED <<toolVars, reproc, rest>>

\* lines 370-385: the second CalculateField of each layer runs when the layer,
\* whose query is evaluated again, still has rows
TrimOpsName ==
    /\ clean.pc = "ops name"
    /\ clean' = [clean EXCEPT
                    !.IncidentName =
                        Title(TrimStartOnce(TrimStartOnce(TrimEndOnce(TrimEndOnce(@))))),
                    !.IRWINID = UpperSeq(@),
                    !.pc = "ops irwin"]
    /\ UNCHANGED <<toolVars, reproc, rest>>

\* lines 387-407
TrimOpsIrwin ==
    /\ clean.pc = "ops irwin"
    /\ clean' = [clean EXCEPT
                    !.IRWINID =
                        TrimEndOnce(TrimEndOnce(TrimEndOnce(
                            TrimStartOnce(TrimStartOnce(TrimStartOnce(@)))))),
                    !.pc = "cleaned"]
    /\ UNCHANGED <<toolVars, reproc, rest>>

NextClean ==
    \/ TrimPerimeterName
    \/ TrimPerimeterIrwin
    \/ TrimOpsName
    \/ TrimOpsIrwin

\* one perimeter and one fireline, the values of each written with up to
\* MaxPad spaces before and after the text
InitClean ==
    /\ opr_event = <<>>
    /\ outperm = <<>>
    /\ perm_dist = 1
    /\ line_dist = 1
    /\ pc = "start"
    /\ opr_event_lnk = <<>>
    /\ rw = 0
    /\ act = <<>>
    /\ geo_lst = <<>>
    /\ fc_lst = <<>>
    /\ df2 = <<>>
    /\ gm = <<>>
    /\ cnt_lns_lst = <<>>
    /\ perm_list = <<>>
    /\ fle = <<>>
    /\ snap = <<>>
    /\ reproc = <<>>
    /\ rest = <<>>
    /\ \E kp, mp, ko, mo \in 0..MaxPad :
          clean = [pc |-> "perimeter name",
                   attr_IncidentName |-> Pad(kp, <<"a", " ", "B">>, mp),
                   attr_IrwinID |-> Pad(kp, <<"{", "a", "}">>, mp),
                   IncidentName |-> Pad(ko, <<"A", " ", "b">>, mo),
                   IRWINID |-> Pad(ko, <<"{", "b", "}">>, mo)]

SpecClean == InitClean /\ [][NextClean]_vars

-----------------------------------------------------------------------------
(* Tool/2B_NIFC_Fireline_Reprocessing.py : the most common incident name and *)
(* IRWIN ID (lines 80-101)                                                  *)

\* line 85: Statistics with the case fields IncidentName;IRWINID, one row per
\* pair of values with the counts of its non-null names and IRWIN IDs
Statistics(lines) ==
    {[IncidentName |-> l.IncidentName,
      IRWINID |-> l.IRWINID,
      COUNT_IncidentName |->
          Cardinality({i \in DOMAIN lines : /\ lines[i].IncidentName = l.IncidentName
                                            /\ lines[i].IRWINID = l.IRWINID}),
      COUNT_IRWINID |->
          Cardinality({i \in DOMAIN lines : /\ lines[i].IncidentName = l.IncidentName
                                            /\ lines[i].IRWINID = l.IRWINID})] :
        l \in Range(lines)}

\* lines 82-88
ComputeStatistics ==
    /\ reproc.pc = "export"
    /\ reproc' = [reproc EXCEPT !.OpsData_Statistics = Statistics(reproc.Firelines_OneFireDiss),
                                !.pc = "view"]
    /\ UNCHANGED <<toolVars, clean, rest>>

\* lines 90-101: the rows of the statistics whose two counts are both the
\* greatest, and the join of one of them to every fireline
AttributeMostCommon ==
    /\ reproc.pc = "view"
    /\ LET stats == reproc.OpsData_Statistics
           view == {g \in stats :
                      /\ \A h \in stats : h.COUNT_IncidentName <= g.COUNT_IncidentName
                      /\ \A h \in stats : h.COUNT_IRWINID <= g.COUNT_IRWINID}
       IN  \/ /\ view = {}
              /\ reproc' = [reproc EXCEPT
                    !.Firelines_OneFireDiss =
                        [i \in DOMAIN @ |-> [@[i] EXCEPT !.IncidentName = NULL, !.IRWINID = NULL]],
                    !.pc = "attributed"]
           \/ \E g \in view :
                reproc' = [reproc EXCEPT
                    !.Firelines_OneFireDiss =
                        [i \in DOMAIN @ |-> [@[i] EXCEPT !.IncidentName = g.IncidentName,
                                                        !.IRWINID = g.IRWINID]],
                    !.pc = "attributed"]
    /\ UNCHANGED <<toolVars, clean, rest>>

NextReproc == ComputeStatistics \/ AttributeMostCommon

\* at most MaxFirelines firelines, each with one of two names and one of four IRWIN IDs
InitReproc ==
    /\ opr_event = <<>>
    /\ outperm = <<>>
    /\ perm_dist = 1
    /\ line_dist = 1
    /\ pc = "start"
    /\ opr_event_lnk = <<>>
    /\ rw = 0
    /\ act = <<>>
    /\ geo_lst = <<>>
    /\ fc_lst = <<>>
    /\ df2 = <<>>
    /\ gm = <<>>
    /\ cnt_lns_lst = <<>>
    /\ perm_list = <<>>
    /\ fle = <<>>
    /\ snap = <<>>
    /\ clean = <<>>
    /\ rest = <<>>
    /\ \E lines \in Tables(<<[row |-> [IncidentName |-> NameA, IRWINID |-> "{1}"]],
                             [row |-> [IncidentName |-> NameA, IRWINID |-> "{2}"]],
                             [row |-> [IncidentName |-> NameA, IRWINID |-> "{3}"]],
                             [row |-> [IncidentName |-> NameB, IRWINID |-> "{3}"]],
                             [row |-> [IncidentName |-> NameB, IRWINID |-> "{4}"]]>>,
                           MaxFirelines) :
          reproc = [pc |-> "export",
                    QAQC_Firelines_ToDiss |-> lines,
                    Firelines_OneFireDiss |-> lines,
                    OpsData_Statistics |-> {}]

SpecReproc == InitReproc /\ [][NextReproc]_vars

-----------------------------------------------------------------------------
(* xbuild/qaqc.py : FLE_QAQC.get_data and FLE_QAQC._get_rest_data *)

\* line 148: the greatest number of ids of one page request
MaxPage == 100

\* variant: torec = i + maxrcn - 1
ObjectIds_OneShort(oids, i, maxrcn) ==
    LET torec == IF i + maxrcn - 1 > Len(oids) THEN Len(oids) ELSE i + maxrcn - 1
    IN  SubSeq(oids, i + 1, torec)

\* lines 162-166: objectIds = oids[i:torec]
ObjectIds(oids, i, maxrcn) ==
    LET torec == IF i + maxrcn > Len(oids) THEN Len(oids) ELSE i + maxrcn
    IN  SubSeq(oids, i + 1, torec)

\* the locals of a _get_rest_data call before its id query
RestLocals == [maxrcn |-> 0, oids |-> <<>>, i |-> 0, pages |-> <<>>, fslist |-> <<>>, prbidlst |-> <<>>]

\* lines 279-282 of get_data, up to its first call of _get_rest_data
GetData ==
    /\ rest.pc = "get_data"
    /\ rest' = [rest EXCEPT !._outperm = <<>>,
                            !._opr_event = <<>>,
                            !.call = "perimeters",
                            !.pc = IF rest.src = "other" THEN "returned" ELSE "ids"]
    /\ UNCHANGED <<toolVars, clean, reproc>>

\* lines 130-160, 184-187 and 196-198 of _get_rest_data: the service and layer
\* descriptions and the id query; a request may raise, answer with another
\* status than 200, answer without objectIdFieldName, or answer with the ids
QueryIds ==
    /\ rest.pc = "ids"
    /\ \/ rest' = [rest EXCEPT !.pc = "raised"]
       \/ \E status \in {200, 500} :
            rest' = [rest EXCEPT !.pc = "return"]
       \/ \E numrec \in 0..MaxIds : \E maxRecordCount \in 1..MaxRecordCount :
            rest' = [rest EXCEPT !.maxrcn = maxRecordCount,
                                 !.oids = [k \in 1..numrec |-> k],
                                 !.pc = "pages"]
       \/ \E maxRecordCount \in {MaxPage, 10 * MaxPage} :
            rest' = [rest EXCEPT !.maxrcn = IF maxRecordCount > MaxPage THEN MaxPage ELSE maxRecordCount,
                                 !.oids = [k \in 1..(MaxPage + 1) |-> k],
                                 !.pc = "pages"]
    /\ UNCHANGED <<toolVars, clean, reproc>>

\* lines 161-183: one pass of the loop over the pages
QueryPage ==
    /\ rest.pc = "pages"
    /\ rest.i < Len(rest.oids)
    /\ \E objectIds \in {ObjectIds(rest.oids, rest.i, rest.maxrcn)} :
        \/ rest' = [rest EXCEPT !.pages = Append(@, [objectIds |-> objectIds, status_code |-> 0]),
                                !.pc = "raised"]
        \/ \E features \in BOOLEAN :
            rest' = [rest EXCEPT !.pages = Append(@, [objectIds |-> objectIds, status_code |-> 200]),
                                 !.fslist = IF features THEN Append(@, objectIds) ELSE @,
                                 !.i = @ + rest.maxrcn]
        \/ rest' = [rest EXCEPT !.pages = Append(@, [objectIds |-> objectIds, status_code |-> 500]),
                                !.prbidlst = Append(@, objectIds),
                                !.i = @ + rest.maxrcn]
    /\ UNCHANGED <<toolVars, clean, reproc>>

\* lines 189-195, 187 and 198 of _get_rest_data, and the lines of get_data
\* that follow the call: 286, 289 and 291-292 after the perimeters, 295 and 297
\* after the line events
ReturnRest ==
    /\ \/ rest.pc = "return"
       \/ rest.pc = "pages" /\ rest.i >= Len(rest.oids)
    /\ \E outgdf \in {IF rest.fslist = <<>> THEN <<>> ELSE <<[features |-> Flatten(rest.fslist)]>>} :
        IF rest.call = "operations"
        THEN rest' = RestLocals @@ [rest EXCEPT !._opr_event = outgdf, !.pc = "returned"]
        ELSE IF rest.src = "rda_hist_url" /\ outgdf = <<>>
        THEN rest' = RestLocals @@ [rest EXCEPT !.pc = "raised"]
        ELSE rest' = RestLocals @@ [rest EXCEPT !._outperm = outgdf,
                                  !.call = "operations",
                                  !.pc = CASE rest.flg = <<>> -> "raised"
                                           [] rest.flg = <<-1>> -> "geodatabase"
                                           [] OTHER -> "ids"]
    /\ UNCHANGED <<toolVars, clean, reproc>>

\* lines 293 and 297 of get_data: _get_geodatabase returns the line events or raises
GetGeodatabase ==
    /\ rest.pc = "geodatabase"
    /\ \/ rest' = [rest EXCEPT !.pc = "raised"]
       \/ rest' = [rest EXCEPT !._opr_event = <<[features |-> <<1>>]>>, !.pc = "returned"]
    /\ UNCHANGED <<toolVars, clean, reproc>>

NextRest ==
    \/ GetData
    \/ QueryIds
    \/ QueryPage
    \/ ReturnRest
    \/ GetGeodatabase

\* an object whose fields are None (<<>>) or hold the data of an earlier call; src
\* is a key of perimeters_urls or not; fire_year is no key of operations_urls,
\* or the key of a geodatabase (flag -1) or of a feature service layer
InitRest ==
    /\ opr_event = <<>>
    /\ outperm = <<>>
    /\ perm_dist = 1
    /\ line_dist = 1
    /\ pc = "start"
    /\ opr_event_lnk = <<>>
    /\ rw = 0
    /\ act = <<>>
    /\ geo_lst = <<>>
    /\ fc_lst = <<>>
    /\ df2 = <<>>
    /\ gm = <<>>
    /\ cnt_lns_lst = <<>>
    /\ perm_list = <<>>
    /\ fle = <<>>
    /\ snap = <<>>
    /\ clean = <<>>
    /\ reproc = <<>>
    /\ \E src \in {"nifc_url", "rda_hist_url", "other"} :
       \E flg \in {<<>>, <<-1>>, <<5>>} :
       \E old \in {<<>>, <<[features |-> <<1>>]>>} :
          rest = [pc |-> "get_data", src |-> src, flg |-> flg, call |-> "perimeters",
                  _outperm |-> old, _opr_event |-> old] @@ RestLocals

SpecRest == InitRest /\ [][NextRest]_vars

-----------------------------------------------------------------------------
(* Tool/4_FLEMetrics.py : the engagement classes and the metrics table      *)
(* (lines 236-422). A field is <<>> when it is NULL, a number is a rational  *)
(* and a text is <<text>>. CalculateField sets a row to NULL when its        *)
(* expression fails on that row (a NULL operand, a division by zero), which  *)
(* is the case lines 405-408 look for.                                      *)

\* a row of the merged table with every field NULL (line 362: Merge keeps the
\* fields of the three inputs)
NullRow ==
    [Engagement |-> <<>>, Shape_Length |-> <<>>, Shape_Area |-> <<>>, HaPar |-> <<>>,
     LinkingField |-> <<>>, FirePerimeterMtrs |-> <<>>, IncGeodesAreaSqMt |-> <<>>,
     HeldLine |-> <<>>, BurnedOverPerimeterSqMt |-> <<>>,
     BurnedOverLineLengthSqMt |-> <<>>, NotEngagedPerimeterSqMt |-> <<>>,
     NotEngagedLineLengthSqMt |-> <<>>, BurnedOverLine |-> <<>>, NotEngagedLine |-> <<>>,
     TotalLine |-> <<>>, HTr |-> <<>>, TR |-> <<>>, ER |-> <<>>, HER |-> <<>>,
     BTR |-> <<>>, NETR |-> <<>>, PrAr |-> <<>>]

\* lines 237-259: the three counts; when all are zero the error message, the
\* deletion of fc_Delete and sys.exit(), whose SystemExit the bare except of
\* line 511 catches
ZeroLineCheck ==
    /\ fle.pc = "count"
    /\ LET counted == [fle EXCEPT !.HeldResult = <<Len(fle.HeldLine)>>,
                                  !.BurnedOverResult = <<Len(fle.BurnedOverLine)>>,
                                  !.NotEngagedResult = <<Len(fle.NotEngaged)>>]
       IN  IF counted.HeldResult = <<0>> /\ counted.BurnedOverResult = <<0>>
              /\ counted.NotEngagedResult = <<0>>
           THEN fle' = [counted EXCEPT
                           !.errors = Append(@, "Zero lines found. Exiting"),
                           !.fc = @ \ {"BurnedOverLine", "FLE_Output_Dateti_Statistics",
                                       "FLE_Output_Sums", "HeldFirePerimBuffer", "HeldLine",
                                       "HeldLine_100mBuff", "HeldLine_Clip_HeldBuff",
                                       "Lines_Buff5", "Lines_Buff25", "NotEngaged",
                                       "PerimMltRngBuff", "FLE_Output_HeldOverwrite"},
                           !.pc = "except"]
           ELSE fle' = [counted EXCEPT !.pc = "held"]
    /\ UNCHANGED pipelineVars

\* lines 511-520: the handler of the try block that starts at line 217
ExceptExit ==
    /\ fle.pc = "except"
    /\ fle' = [fle EXCEPT
                  !.errors = Append(@, "Error... Exiting"),
                  !.fc = @ \ {"BurnedOverLine", "SortedExportFeature",
                              "OutputFLEMetrics_ExportTable", "FLE_Output_Dateti_Statistics",
                              "FLE_Output_Sums", "HeldFirePerimBuffer", "HeldLine",
                              "HeldLine_100mBuff", "HeldLine_Clip_HeldBuff", "Lines_Buff5",
                              "Lines_Buff25", "NotEngaged", "PerimMltRngBuff",
                              "FLE_Output_HeldOverwrite"},
                  !.pc = "exited"]
    /\ UNCHANGED pipelineVars

\* lines 261-332: HaPar of the held rows, or the row (0, 0, 0, 1) when there is
\* none; then the fields of the perimeter joined on LinkingField, HeldLine and
\* the three Engagement texts
HeldLineRows ==
    /\ fle.pc = "held"
    /\ LET held == IF fle.HeldResult # <<0>>
                   THEN [k \in DOMAIN fle.HeldLine |->
                            [fle.HeldLine[k] EXCEPT !.HaPar = fle.HaPar,
                                                    !.LinkingField = R(1)]]
                   ELSE <<[NullRow EXCEPT !.Shape_Length = R(0), !.Shape_Area = R(0),
                                          !.HaPar = R(0), !.LinkingField = R(1)]>>
           Engage(rows, text) == [k \in DOMAIN rows |-> [rows[k] EXCEPT !.Engagement = <<text>>]]
       IN  fle' = [fle EXCEPT
                      !.HeldLine = Engage([k \in DOMAIN held |->
                                     [held[k] EXCEPT
                                        !.FirePerimeterMtrs = fle.FirePerimeterMtrs,
                                        !.IncGeodesAreaSqMt = fle.IncGeodesAreaSqMt,
                                        !.HeldLine = Rat(fle.FirePerimeterMtrs[1] * held[k].HaPar[1],
                                                         fle.FirePerimeterMtrs[2] * held[k].HaPar[2])]],
                                     "Held"),
                      !.NotEngaged = Engage(@, "Not Engaged"),
                      !.BurnedOverLine = Engage(@, "Burned Over"),
                      !.fc = IF fle.HeldResult # <<0>>
                             THEN @ \cup {"HeldLine_100mBuff", "HeldLine_Clip_HeldBuff",
                                          "HeldFirePerimBuffer"}
                             ELSE @,
                      !.pc = "engagement"]
    /\ UNCHANGED pipelineVars

\* variant: no row is inserted into an empty class
EngagementRows_NoInsert ==
    /\ fle.pc = "engagement"
    /\ LET bo == fle.BurnedOverLine
           ne == fle.NotEngaged
       IN  fle' = [fle EXCEPT
                  !.BurnedOverLine =
                      [k \in DOMAIN bo |->
                          [bo[k] EXCEPT !.BurnedOverPerimeterSqMt = bo[k].Shape_Length,
                                        !.BurnedOverLineLengthSqMt =
                                            Rat(bo[k].Shape_Length[1],
                                                2 * bo[k].Shape_Length[2])]],
                  !.NotEngaged =
                      [k \in DOMAIN ne |->
                          [ne[k] EXCEPT !.NotEngagedPerimeterSqMt = ne[k].Shape_Length,
                                        !.NotEngagedLineLengthSqMt =
                                            Rat(ne[k].Shape_Length[1],
                                                2 * ne[k].Shape_Length[2])]],
                  !.pc = "merge"]
    /\ UNCHANGED pipelineVars

\* lines 339-359: the perimeter of each Burned Over and Not Engaged row and half
\* of it as its line length, or the row (text, 0, 0) when there is none
EngagementRows ==
    /\ fle.pc = "engagement"
    /\ LET bo == fle.BurnedOverLine
           ne == fle.NotEngaged
       IN  fle' = [fle EXCEPT
                  !.BurnedOverLine =
                      IF fle.BurnedOverResult = <<0>>
                      THEN <<[NullRow EXCEPT !.Engagement = <<"Burned Over">>,
                                             !.BurnedOverPerimeterSqMt = R(0),
                                             !.BurnedOverLineLengthSqMt = R(0)]>>
                      ELSE [k \in DOMAIN bo |->
                              [bo[k] EXCEPT !.BurnedOverPerimeterSqMt = bo[k].Shape_Length,
                                            !.BurnedOverLineLengthSqMt =
                                                Rat(bo[k].Shape_Length[1],
                                                    2 * bo[k].Shape_Length[2])]],
                  !.NotEngaged =
                      IF fle.NotEngagedResult = <<0>>
                      THEN <<[NullRow EXCEPT !.Engagement = <<"Not Engaged">>,
                                             !.NotEngagedPerimeterSqMt = R(0),
                                             !.NotEngagedLineLengthSqMt = R(0)]>>
                      ELSE [k \in DOMAIN ne |->
                              [ne[k] EXCEPT !.NotEngagedPerimeterSqMt = ne[k].Shape_Length,
                                            !.NotEngagedLineLengthSqMt =
                                                Rat(ne[k].Shape_Length[1],
                                                    2 * ne[k].Shape_Length[2])]],
                  !.pc = "merge"]
    /\ UNCHANGED pipelineVars

\* lines 362-422: the merged table, the sums joined on LinkingField, the
\* metrics of each row and the deletion of the processing data
MergeMetrics ==
    /\ fle.pc = "merge"
    /\ LET \* Statistics SUM: the sum of the values that are not NULL
           Sum(col) == LET nn == SelectSeq(col, LAMBDA v : v # <<>>)
                       IN  IF nn = <<>> THEN <<>> ELSE RSum(nn)
           Add(a, b) == IF a = <<>> \/ b = <<>> THEN <<>> ELSE RAdd(a, b)
           Div(a, b) == IF a = <<>> \/ b = <<>> THEN <<>>
                        ELSE IF b[1] = 0 THEN <<>>
                        ELSE Rat(a[1] * b[2], a[2] * b[1])
           NoSum == [FirePerimeterMtrs |-> <<>>, IncGeodesAreaSqMt |-> <<>>,
                     HeldLine |-> <<>>, BurnedOverLine |-> <<>>, NotEngagedLine |-> <<>>]
       IN  \* line 362
           \E merged \in {fle.HeldLine \o fle.BurnedOverLine \o fle.NotEngaged} :
           \* line 370, over the fields that lines 368-369 fill
           \E SUM \in {[FirePerimeterMtrs |->
                            Sum([k \in DOMAIN merged |-> merged[k].FirePerimeterMtrs]),
                        IncGeodesAreaSqMt |->
                            Sum([k \in DOMAIN merged |-> merged[k].IncGeodesAreaSqMt]),
                        HeldLine |-> Sum([k \in DOMAIN merged |-> merged[k].HeldLine]),
                        BurnedOverLine |->
                            Sum([k \in DOMAIN merged |-> merged[k].BurnedOverLineLengthSqMt]),
                        NotEngagedLine |->
                            Sum([k \in DOMAIN merged |-> merged[k].NotEngagedLineLengthSqMt])]} :
           \* lines 371-378: FLE_Output_Sums has LinkingField 1
           \E summed \in {[k \in DOMAIN merged |->
                            LET joined == IF merged[k].LinkingField = R(1) THEN SUM ELSE NoSum
                            IN  [merged[k] EXCEPT
                                    !.NotEngagedLine = joined.NotEngagedLine,
                                    !.BurnedOverLine = joined.BurnedOverLine,
                                    !.FirePerimeterMtrs = joined.FirePerimeterMtrs,
                                    !.HeldLine = joined.HeldLine,
                                    !.IncGeodesAreaSqMt = joined.IncGeodesAreaSqMt]]} :
           \* lines 397-401 and 413-415
           \E ratios \in {[k \in DOMAIN summed |->
                            LET r == summed[k]
                                total == Add(Add(r.HeldLine, r.BurnedOverLine), r.NotEngagedLine)
                            IN  [r EXCEPT
                                    !.TotalLine = total,
                                    !.HTr = Div(r.HeldLine, total),
                                    !.TR = Div(total, r.FirePerimeterMtrs),
                                    !.ER = Div(Add(r.HeldLine, r.BurnedOverLine), total),
                                    !.HER = Div(r.HeldLine, Add(r.HeldLine, r.BurnedOverLine)),
                                    !.BTR = Div(r.BurnedOverLine, total),
                                    !.NETR = Div(r.NotEngagedLine, total),
                                    !.PrAr = Div(r.FirePerimeterMtrs, r.IncGeodesAreaSqMt)]]} :
               fle' = [fle EXCEPT
                          \* lines 402-412: HER of every row is 0 when that of the
                          \* first row is NULL
                          !.Output = IF ratios[1].HER = <<>>
                                     THEN [k \in DOMAIN ratios |->
                                              [ratios[k] EXCEPT !.HER = R(0)]]
                                     ELSE ratios,
                          \* lines 417-422
                          !.fc = (@ \cup {"FLE_Output_Sums"})
                                 \ {"HeldFirePerimBuffer", "BurnedOverLine",
                                    "OutputFLEMetrics_ExportTable",
                                    "FLE_Output_Dateti_Statistics", "FLE_Output_Sums",
                                    "HeldLine", "HeldLine_100mBuff", "HeldLine_Clip_HeldBuff",
                                    "Lines_Buff5", "Lines_Buff25", "NotEngaged",
                                    "PerimMltRngBuff", "FLE_Output_HeldOverwrite"},
                          !.pc = "flag"]
    /\ UNCHANGED pipelineVars

NextMetrics ==
    \/ ZeroLineCheck
    \/ ExceptExit
    \/ HeldLineRows
    \/ EngagementRows
    \/ MergeMetrics

\* the state after the clips and the erase of lines 230-234: up to MaxClipRows
\* features in each class
InitMetrics ==
    /\ opr_event = <<>>
    /\ outperm = <<>>
    /\ perm_dist = 1
    /\ line_dist = 1
    /\ pc = "start"
    /\ opr_event_lnk = <<>>
    /\ rw = 0
    /\ act = <<>>
    /\ geo_lst = <<>>
    /\ fc_lst = <<>>
    /\ df2 = <<>>
    /\ gm = <<>>
    /\ cnt_lns_lst = <<>>
    /\ perm_list = <<>>
    /\ snap = <<>>
    /\ clean = <<>>
    /\ reproc = <<>>
    /\ rest = <<>>
    /\ \E nh \in 0..MaxClipRows, nb \in 0..MaxClipRows, nn \in 0..MaxClipRows :
       \E held \in [1..nh -> {R(2), R(4)}], bo \in [1..nb -> {R(2), R(4)}],
          ne \in [1..nn -> {R(2), R(4)}], hapar \in {Rat(1, 2), R(1)} :
            LET Clip(ps) == [k \in DOMAIN ps |->
                               [NullRow EXCEPT !.Shape_Length = ps[k], !.Shape_Area = ps[k]]]
            IN  fle = [pc |-> "count", HeldLine |-> Clip(held), BurnedOverLine |-> Clip(bo),
                       NotEngaged |-> Clip(ne), HaPar |-> hapar,
                       FirePerimeterMtrs |-> R(8), IncGeodesAreaSqMt |-> R(4),
                       HeldResult |-> <<>>, BurnedOverResult |-> <<>>,
                       NotEngagedResult |-> <<>>, errors |-> <<>>, Output |-> <<>>,
                       fc |-> {"Lines_Buff25", "Lines_Buff5", "PerimMltRngBuff", "HeldLine",
                               "BurnedOverLine", "NotEngaged"}]

SpecMetrics == InitMetrics /\ [][NextMetrics]_vars

-----------------------------------------------------------------------------
(* Metrics of an incident (xbuild/qaqc.py, _get_metrics) *)

InUnit(v) == IsNum(v) /\ RLe(R(0), v) /\ RLe(v, R(1))

\* C1: for every incident the metrics calculation processes, the total length
\* that divides HTr, Er, BTR and NeTr is the sum of the Held, Burnt Over and
\* Not Engaged lengths, and Held plus Burnt Over is the numerator of Er.
C1_TotalIsSumOfLabels ==
    gm # <<>> =>
        /\ gm[1].TotalLine = RAdd(RAdd(gm[1].held, gm[1].burnt), gm[1].noteng)
        /\ gm[1].engaged = RAdd(gm[1].held, gm[1].burnt)
        /\ pc # "metrics" => gm[1].TotalLine = RSum([i \in DOMAIN df2 |-> Length(df2[i].geometry)])

C1_Witness ==
    /\ gm # <<>>
    /\ RLt(R(0), gm[1].held)
    /\ RLt(R(0), gm[1].burnt)
    /\ RLt(R(0), gm[1].noteng)

\* C2: for every incident with totalLength > 0, HTr, Er, NeTr and BTR lie in
\* [0,1], and HER lies in [0,1] when held + burnedOver > 0 and is 0 otherwise.
C2_RatiosInUnitInterval ==
    (gm # <<>> /\ RLt(R(0), gm[1].TotalLine)) =>
        /\ InUnit(gm[1].out_dic.HTr)
        /\ InUnit(gm[1].out_dic.Er)
        /\ InUnit(gm[1].out_dic.NeTr)
        /\ InUnit(gm[1].out_dic.BTR)
        /\ RLt(R(0), gm[1].engaged) => InUnit(gm[1].out_dic.HER)
        /\ gm[1].engaged = R(0) => gm[1].out_dic.HER = R(0)

\* C3: every division of the metrics calculation is guarded: no ratio is NaN
\* or infinite, and a ratio whose denominator is zero is 0.
C3_DivisionsGuarded ==
    gm # <<>> =>
        /\ \A k \in {"HTr", "TR", "Er", "HER", "BTR", "NeTr", "PrAr"} : IsNum(gm[1].out_dic[k])
        /\ gm[1].TotalLine = R(0) =>
                \A k \in {"HTr", "Er", "BTR", "NeTr"} : gm[1].out_dic[k] = R(0)
        /\ gm[1].engaged = R(0) => gm[1].out_dic.HER = R(0)
        /\ gm[1].farea = R(0) => gm[1].out_dic.PrAr = R(0)

\* C4: an incident for which no Action is built still has its metrics row once
\* the loop has passed it, and every ratio of that row is 0.
C4_ZeroLineIncidentRow ==
    \A i \in DOMAIN outperm_lnk :
        (/\ pc \in {"loop", "metrics", "done"}
         /\ i < rw
         /\ IncidentActions(opr_event_lnk, outperm_lnk[i].poly_IncidentName, line_dist) = <<>>)
        => /\ i \in DOMAIN perm_list
           /\ perm_list[i].IncidentName = outperm_lnk[i].poly_IncidentName
           /\ \A k \in {"HTr", "TR", "Er", "HER", "BTR", "NeTr", "PrAr"} : perm_list[i][k] = R(0)
           /\ Len(perm_list) = rw - 1

C4_Witness ==
    /\ pc = "done"
    /\ Len(opr_event) > 0
    /\ \E i \in DOMAIN outperm_lnk :
        /\ IncidentActions(opr_event_lnk, outperm_lnk[i].poly_IncidentName, line_dist) = <<>>
        /\ perm_list[i].HER = R(0)
    /\ \E i \in DOMAIN outperm_lnk :
        IncidentActions(opr_event_lnk, outperm_lnk[i].poly_IncidentName, line_dist) # <<>>

-----------------------------------------------------------------------------
(* Engagement classification (xbuild/qaqc.py, _label_control) *)

\* every point of cell c is within dist of a point where the perimeter's boundary
\* crosses the axis
NearBoundary(c, pgeo, dist) ==
    \E p \in 0..WorldMax :
        /\ ((p - 1) \in pgeo) # (p \in pgeo)
        /\ p - dist <= c
        /\ c + 1 <= p + dist

Near(pgeo, dist) == {c \in Cells : NearBoundary(c, pgeo, dist)}

\* the length of the pieces of consolidated line i that carry label
PieceLength(i, label) ==
    LET sel == SelectSeq(df2, LAMBDA r : r.src = i /\ r.FirelineEngagement = label)
    IN  RSum([k \in DOMAIN sel |-> Length(sel[k].geometry)])

Labels == {Held, BurntOver, NotEngaged}

\* C6: the three zones of the classifier are pairwise disjoint and cover every
\* location; the pieces of a consolidated line carry one of the three labels
\* each, at most one piece per label, and their lengths sum to the line's length.
C6_ClassificationPartitions ==
    pc = "metrics" =>
        LET z == Zones(CurGeo, perm_dist)
            held == z.hbuff
            burnt == z.bbuff
            noteng == Cells \ z.nbuff
        IN  /\ held \cap burnt = {}
            /\ held \cap noteng = {}
            /\ burnt \cap noteng = {}
            /\ held \cup burnt \cup noteng = Cells
            /\ \A k \in DOMAIN df2 :
                /\ df2[k].FirelineEngagement \in Labels
                /\ df2[k].src \in DOMAIN geo_lst
                /\ \A j \in DOMAIN df2 :
                    (j # k /\ df2[j].src = df2[k].src)
                        => df2[j].FirelineEngagement # df2[k].FirelineEngagement
            /\ \A i \in DOMAIN geo_lst :
                RAdd(RAdd(PieceLength(i, Held), PieceLength(i, BurntOver)), PieceLength(i, NotEngaged))
                    = Length(geo_lst[i])

C6_Witness ==
    /\ pc = "metrics"
    /\ Len(geo_lst) > 1
    /\ \E i \in DOMAIN geo_lst :
        /\ RLt(R(0), PieceLength(i, Held))
        /\ RLt(R(0), PieceLength(i, BurntOver))
        /\ RLt(R(0), PieceLength(i, NotEngaged))

-----------------------------------------------------------------------------
(* Cluster Builder and Centerline Averager (xbuild/qaqc.py, lines 370-407) *)

\* the distance between two segments of the axis
SegDist(g, h) ==
    LET d == SetMax({g.lo, h.lo}) - SetMin({g.hi, h.hi})
    IN  IF d > 0 THEN d ELSE 0

\* the line_dist buffers of the two segments overlap
BuffersOverlap(g, h) == SegDist(g, h) < 2 * line_dist

\* the (incident, category) set the Action in act was cut from
ActSet == LnsSub(opr_event_lnk, act[1].fc, CurId)

\* the segments of set that a chain of overlapping buffers links to those of S
RECURSIVE ChainFrom(_, _)
ChainFrom(S, set) ==
    LET T == S \cup {t \in Range(set) : \E u \in S : BuffersOverlap(u.geometry, t.geometry)}
    IN  IF T = S THEN S ELSE ChainFrom(T, set)

InAct(t) == t \in Range(act[1].lns)

\* C7 as claimed: two segments of one (incident, category) set farther apart
\* than 2 x lineDist are in different Actions, and two whose buffers overlap are
\* in the same Action.
C7_FarApartSeparated ==
    (pc = "loop" /\ act # <<>> /\ geo_lst # <<>>) =>
        \A s \in Range(act[1].lns) : \A t \in Range(ActSet) :
            /\ SegDist(s.geometry, t.geometry) > 2 * line_dist => ~ InAct(t)
            /\ BuffersOverlap(s.geometry, t.geometry) => InAct(t)

\* C7 as amended: two segments farther apart than 2 x lineDist are in different
\* Actions unless a chain of segments of the set with overlapping buffers links
\* them, and two segments whose buffers overlap are in the same Action.
C7_UnlinkedSeparated ==
    (pc = "loop" /\ act # <<>> /\ geo_lst # <<>>) =>
        \A s \in Range(act[1].lns) : \A t \in Range(ActSet) :
            /\ (/\ SegDist(s.geometry, t.geometry) > 2 * line_dist
                /\ t \notin ChainFrom({s}, ActSet)) => ~ InAct(t)
            /\ BuffersOverlap(s.geometry, t.geometry) => InAct(t)

\* an Action of two overlapping segments, and a third segment of the set that is
\* far from both and in another Action
C7_Witness ==
    /\ pc = "loop" /\ act # <<>> /\ geo_lst # <<>>
    /\ \E s \in Range(act[1].lns) : \E t \in Range(act[1].lns) : \E u \in Range(ActSet) :
        /\ s.id # t.id
        /\ BuffersOverlap(s.geometry, t.geometry)
        /\ SegDist(s.geometry, u.geometry) > 2 * line_dist
        /\ SegDist(t.geometry, u.geometry) > 2 * line_dist
        /\ ~ InAct(u)

\* the densified vertices of the skeleton of the Action in act
Skeleton == act[1].dlns[act[1].lns_l]

\* vertex i of the skeleton has no other densified vertex within line_dist
Isolated(i) ==
    \A j \in DOMAIN Skeleton :
        j # i => RLt(R(line_dist), RAbs(RSub(Skeleton[j], Skeleton[i])))

\* C8 as claimed: the Centerline Averager returns the densified geometry of an
\* Action of one segment unchanged, vertex by vertex.
C8_SingleSegmentUnchanged ==
    (act # <<>> /\ geo_lst # <<>> /\ Len(act[1].lns) = 1) =>
        /\ Len(act[1].t) = Len(Skeleton)
        /\ \A i \in DOMAIN Skeleton : act[1].t[i] = Skeleton[i]

\* C8 as amended: for an Action of one segment the averager returns one vertex
\* per densified vertex, and returns unchanged every densified vertex that has
\* no other densified vertex of the segment within lineDist of it; a vertex
\* with such neighbours becomes the mean of itself and of them.
C8_SingleSegmentIsolatedUnchanged ==
    (act # <<>> /\ geo_lst # <<>> /\ Len(act[1].lns) = 1) =>
        /\ Len(act[1].t) = Len(Skeleton)
        /\ \A i \in DOMAIN Skeleton :
            /\ Isolated(i) => act[1].t[i] = Skeleton[i]
            /\ LET near == {j \in DOMAIN Skeleton :
                              RLe(RAbs(RSub(Skeleton[j], Skeleton[i])), R(line_dist))}
                   sum == RSum([k \in 1..Cardinality(near) |->
                              Skeleton[SetMin(near) + k - 1]])
               IN  /\ near = SetMin(near)..SetMax(near)
                   /\ act[1].t[i] = FDiv(sum, R(Cardinality(near)))

\* an Action of one segment whose densified vertices are all isolated
C8_Witness ==
    /\ act # <<>> /\ geo_lst # <<>> /\ Len(act[1].lns) = 1
    /\ Len(Skeleton) > 2
    /\ \A i \in DOMAIN Skeleton : Isolated(i)
    /\ act[1].t = Skeleton

-----------------------------------------------------------------------------
(* Anomaly flags (Tool/4_FLEMetrics.py, lines 424-456) *)

RatioFields == {"HTr", "ER", "HER", "BTR", "NETR"}

AnyOutsideUnit == \E k \in RatioFields : ~ InUnit(fle.table[k])

FlagIs(text) == \A i \in 1..fle.rows : fle.FLE_Flag[i] = text

\* C9: once the flag block has run, the flag is the ratio-out-of-range text
\* whenever HTr, Er, HER, BTR or NeTr is below 0 or above 1, and the flag is the
\* default "None" when the five are within [0,1] and TR is at most 3.25.
C9_RangeFlag ==
    fle.pc = "export" =>
        /\ AnyOutsideUnit => FlagIs(FlagRange)
        /\ (~ AnyOutsideUnit /\ RLe(fle.table.TR, TRExtreme)) => FlagIs(FlagNone)

\* a ratio above 1 alone with the flag set, on a table of several rows
C9_Witness ==
    /\ fle.pc = "export"
    /\ fle.rows > MinRows
    /\ fle.table.BTR = Rat(5, 4)
    /\ \A k \in RatioFields \ {"BTR"} : InUnit(fle.table[k])
    /\ FlagIs(FlagRange)

\* C10: once the flag block has run, the flag is the TR-extreme text, and so
\* holds no ratio-range text, whenever TR exceeds 3.25 and HTr, Er, HER, BTR and
\* NeTr are within [0,1].
C10_TRFlag ==
    (fle.pc = "export" /\ RLt(TRExtreme, fle.table.TR) /\ ~ AnyOutsideUnit) =>
        FlagIs(FlagTR)

-----------------------------------------------------------------------------
(* Failures (xbuild/qaqc.py, lines 363-438 and 299-311) *)

\* the table _average_lines returns; a call that raised returns none
ReturnedRows == IF pc = "done" THEN perm_list ELSE <<>>

\* a line selected for incident id has a geometry _redistribute_vertices rejects
FailsIn(id) ==
    \E i \in DOMAIN opr_event_lnk :
        /\ StrContainsNoCase(opr_event_lnk[i].FeatureCategory, complete)
        /\ opr_event_lnk[i].DeleteThis = "No"
        /\ StrContainsNoCase(opr_event_lnk[i].IncidentName, id)
        /\ ~ Handled(opr_event_lnk[i].geometry)

\* C12: when the call has ended, every incident whose own processing raised no
\* failure has its row in the returned table, whatever happened to the others.
C12_FailureIsolated ==
    pc \in {"done", "raised"} =>
        \A k \in DOMAIN outperm_lnk :
            ~ FailsIn(outperm_lnk[k].poly_IncidentName) =>
                \E r \in DOMAIN ReturnedRows :
                    ReturnedRows[r].IncidentName = outperm_lnk[k].poly_IncidentName

-----------------------------------------------------------------------------
(* Lines marked for deletion (xbuild/qaqc.py, lines 355-374) *)

NotDeleted(lnk) == SelectSeq(lnk, LAMBDA l : l.DeleteThis = "No")

\* C13: every line of every Action has DeleteThis "No", and the Actions of an
\* incident are those the lines with DeleteThis "No" alone would give, so a line
\* marked for deletion reaches no Action, consolidated line or metric.
C13_DeletedLinesExcluded ==
    /\ act # <<>> => \A i \in DOMAIN act[1].lns : act[1].lns[i].DeleteThis = "No"
    /\ (pc = "loop" /\ rw <= Len(outperm_lnk)) =>
            CurActions = IncidentActions(NotDeleted(opr_event_lnk), CurId, line_dist)

\* an Action was averaged for an incident that also has a line marked for
\* deletion, of the same category and lying within reach of the Action's lines
C13_Witness ==
    /\ pc = "loop" /\ act # <<>> /\ geo_lst # <<>>
    /\ \E i \in DOMAIN opr_event_lnk :
        /\ opr_event_lnk[i].DeleteThis = "Yes"
        /\ opr_event_lnk[i].FeatureCategory = act[1].fc
        /\ StrContainsNoCase(opr_event_lnk[i].IncidentName, CurId)
        /\ \E j \in DOMAIN act[1].lns :
              SegDist(opr_event_lnk[i].geometry, act[1].lns[j].geometry) < 2 * line_dist

-----------------------------------------------------------------------------
(* Incident association (xbuild/qaqc.py, lines 352-356 and 440-448) *)

\* the IncidentName the association gives row r: the key of the joined
\* perimeter when the line's own IncidentName is null, the line's own otherwise
AssociatedName(r) ==
    IF opr_event[r.id].IncidentName = NULL
    THEN r.poly_IncidentName
    ELSE opr_event[r.id].IncidentName

\* C14 as claimed: after association, in _average_lines and in
\* _assign_snap_dissolve, a line whose IncidentName was null has the key of the
\* perimeter it was joined to, a line whose IncidentName was not null has it
\* unchanged, and no retained line has a null IncidentName.
C14_NullNameTakesKey ==
    pc # "start" =>
        \A i \in DOMAIN opr_event_lnk :
            /\ opr_event_lnk[i].IncidentName = AssociatedName(opr_event_lnk[i])
            /\ opr_event_lnk[i].IncidentName # NULL

\* C14 as amended: in _average_lines the names are as claimed; in
\* _assign_snap_dissolve the name as claimed is then upper-cased and stripped
\* of leading and trailing white space; in both no retained line has a null
\* IncidentName.
C14_NullNameTakesKeyThenCleaned ==
    pc # "start" =>
        \A i \in DOMAIN opr_event_lnk :
            /\ opr_event_lnk[i].IncidentName =
                    IF pc = "snapped"
                    THEN Strip(UpperSeq(AssociatedName(opr_event_lnk[i])))
                    ELSE AssociatedName(opr_event_lnk[i])
            /\ opr_event_lnk[i].IncidentName # NULL

\* _average_lines has associated a line without a name and a line with one
C14_Witness ==
    /\ pc = "loop"
    /\ \E i \in DOMAIN opr_event_lnk : \E j \in DOMAIN opr_event_lnk :
        /\ opr_event[opr_event_lnk[i].id].IncidentName = NULL
        /\ opr_event_lnk[i].IncidentName = opr_event_lnk[i].poly_IncidentName
        /\ opr_event[opr_event_lnk[j].id].IncidentName # NULL
        /\ opr_event_lnk[j].IncidentName # opr_event_lnk[j].poly_IncidentName

-----------------------------------------------------------------------------
(* Lines without an incident (xbuild/qaqc.py, lines 352-372) *)

\* the line has no IncidentName and meets no perimeter
Unassociated(l) ==
    /\ l.IncidentName = NULL
    /\ \A k \in DOMAIN outperm_lnk : ~ Intersects(l.geometry, outperm_lnk[k].geometry)

\* the geometries of the rows of the line frame _average_lines returns
ReturnedLines ==
    IF pc = "done"
    THEN {r.geometry.verts : r \in Range(Flatten(cnt_lns_lst))}
    ELSE {}

\* C15: when _average_lines returns, every completed line that has no
\* IncidentName and meets no perimeter is among the rows it returns, and is in
\* no incident's association.
C15_UnassociatedEmitted ==
    pc = "done" =>
        \A i \in DOMAIN opr_event :
            (/\ Unassociated(opr_event[i])
             /\ StrContainsNoCase(opr_event[i].FeatureCategory, complete)) =>
                /\ <<R(opr_event[i].geometry.lo), R(opr_event[i].geometry.hi)>> \in ReturnedLines
                /\ \A j \in DOMAIN opr_event_lnk : opr_event_lnk[j].id # i

-----------------------------------------------------------------------------
(* Degenerate geometries (xbuild/qaqc.py, lines 243-254 and 352-381) *)

\* GeoSeries.is_valid: a LineString needs two distinct vertices
IsValid(geom) == geom.type = "LineString" => geom.lo < geom.hi

\* C16: every line geometry that is buffered and clustered for the current
\* incident is a valid geometry.
C16_InvalidNeverClustered ==
    (pc = "loop" /\ rw <= Len(outperm_lnk)) =>
        \A k \in DOMAIN CurActions : \A i \in DOMAIN CurActions[k].lns :
            IsValid(CurActions[k].lns[i].geometry)

-----------------------------------------------------------------------------
(* Independence of the incidents (xbuild/qaqc.py, lines 355-374) *)

\* the lines that line 372 selects for the current incident, of any category
Contributors ==
    {l \in Range(opr_event_lnk) :
        \E fc \in {m.FeatureCategory : m \in Range(opr_event_lnk)} :
            l \in Range(LnsSub(opr_event_lnk, fc, CurId))}

\* C17: a line is selected for the Actions and metrics of an incident only when
\* the incident's key is the line's IncidentName after association, so no
\* line is selected for an incident other than its own.
C17_OwnIncidentOnly ==
    (pc = "loop" /\ rw <= Len(outperm_lnk)) =>
        \A l \in Contributors : LowerSeq(l.IncidentName) = LowerSeq(CurId)

-----------------------------------------------------------------------------
(* The rows of the metrics table (xbuild/qaqc.py, lines 354-438) *)

\* the distinct grouping keys of the perimeters
PerimeterKeys == {outperm[i].poly_IncidentName : i \in DOMAIN outperm}

\* C18: the metrics table _average_lines returns has exactly one row for each
\* distinct perimeter key, whether or not the incident has lines, and no other row.
C18_OneRowPerIncident ==
    pc = "done" =>
        /\ \A key \in PerimeterKeys :
              Cardinality({r \in DOMAIN perm_list : perm_list[r].IncidentName = key}) = 1
        /\ \A r \in DOMAIN perm_list : perm_list[r].IncidentName \in PerimeterKeys

\* the table is returned for three perimeters of two incidents, the first
\* incident with lines and the second without
C18_Witness ==
    /\ pc = "done"
    /\ Len(outperm) = 3
    /\ Len(perm_list) = 2
    /\ cnt_lns_lst[1] # <<>>
    /\ cnt_lns_lst[2] = <<>>

-----------------------------------------------------------------------------
(* Densified lines (xbuild/qaqc.py, lines 299-311) *)

\* C19: every line _redistribute_vertices returns for a LineString has at
\* least two vertices, the first at the start and the last at the end of the
\* LineString, also when the LineString is shorter than the distance.
C19_EndpointsKept ==
    act # <<>> =>
        \A i \in DOMAIN act[1].dlns :
            /\ Len(act[1].dlns[i]) >= 2
            /\ act[1].dlns[i][1] = R(act[1].lns[i].geometry.lo)
            /\ act[1].dlns[i][Len(act[1].dlns[i])] = R(act[1].lns[i].geometry.hi)

\* a LineString shorter than half the distance was densified to its two ends
C19_Witness ==
    /\ act # <<>>
    /\ \E i \in DOMAIN act[1].dlns :
          /\ 2 * (act[1].lns[i].geometry.hi - act[1].lns[i].geometry.lo) <= line_dist
          /\ act[1].dlns[i] = <<R(act[1].lns[i].geometry.lo), R(act[1].lns[i].geometry.hi)>>

-----------------------------------------------------------------------------
(* Attribute cleaning (Tool/2_NIFC_Fireline_QAQC.py, lines 28 and 330-407) *)

OuterSpace(s) == Len(s) > 0 /\ (s[1] = " " \/ s[Len(s)] = " ")

\* C20: once the attribute data is cleaned, neither the incident name nor the
\* IRWIN ID of the perimeter or of the fireline begins or ends with a space.
C20_NoOuterSpace ==
    (clean # <<>> /\ clean.pc = "cleaned") =>
        /\ ~ OuterSpace(clean.attr_IncidentName)
        /\ ~ OuterSpace(clean.attr_IrwinID)
        /\ ~ OuterSpace(clean.IncidentName)
        /\ ~ OuterSpace(clean.IRWINID)

-----------------------------------------------------------------------------
(* Most common attribution (Tool/2B_NIFC_Fireline_Reprocessing.py, lines 17 and 80-101) *)

\* the values of field f that no other value outnumbers among lines
MostFrequent(lines, f) ==
    LET n(v) == Cardinality({i \in DOMAIN lines : lines[i][f] = v})
    IN  {lines[i][f] : i \in {j \in DOMAIN lines : \A k \in DOMAIN lines : n(lines[k][f]) <= n(lines[j][f])}}

\* C21: after the attribution every fireline has the same IncidentName and the
\* same IRWINID, the name is a most frequent name of the input firelines and
\* the IRWIN ID is a most frequent IRWIN ID of the input firelines.
C21_MostFrequentAttributed ==
    (reproc # <<>> /\ reproc.pc = "attributed") =>
        \A i \in DOMAIN reproc.Firelines_OneFireDiss :
            /\ reproc.Firelines_OneFireDiss[i].IncidentName = reproc.Firelines_OneFireDiss[1].IncidentName
            /\ reproc.Firelines_OneFireDiss[i].IRWINID = reproc.Firelines_OneFireDiss[1].IRWINID
            /\ reproc.Firelines_OneFireDiss[i].IncidentName \in
                    MostFrequent(reproc.QAQC_Firelines_ToDiss, "IncidentName")
            /\ reproc.Firelines_OneFireDiss[i].IRWINID \in
                    MostFrequent(reproc.QAQC_Firelines_ToDiss, "IRWINID")

-----------------------------------------------------------------------------
(* Order of the stages (xbuild/qaqc.py, lines 363-420) *)

\* C22: in every step, an Action that is averaged is one of the Actions of the
\* finished clustering of the current incident and nothing is classified in
\* that step; the lines are classified only when every Action of every
\* category of the incident has been averaged, and no metrics are computed in
\* that step; the metrics are computed from the classified lines.
C22_StagesInOrder ==
    [][/\ Len(geo_lst') = Len(geo_lst) + 1 =>
            /\ pc = "loop" /\ pc' = "loop"
            /\ act'[1].lns = CurActions[Len(geo_lst')].lns
            /\ df2' = df2 /\ cnt_lns_lst' = cnt_lns_lst /\ perm_list' = perm_list
       /\ (pc # "metrics" /\ pc' = "metrics") =>
            /\ Len(geo_lst) = Len(CurActions)
            /\ geo_lst' = geo_lst
            /\ df2' = LabelControl(IncidentFrame, CurGeo, perm_dist)
            /\ perm_list' = perm_list
       /\ (pc = "metrics" /\ pc' # "metrics") =>
            /\ df2' = df2
            /\ cnt_lns_lst[Len(cnt_lns_lst)] = df2
            /\ perm_list' = Append(perm_list, GetMetrics(df2, CurGeo, CurId).out_dic)
      ]_vars

\* the lines of an incident with Actions of two categories are classified
C22_Witness ==
    /\ pc = "metrics"
    /\ Len(geo_lst) = 2
    /\ fc_lst[1] # fc_lst[2]
    /\ df2 # <<>>

-----------------------------------------------------------------------------
(* Chains of buffers (xbuild/qaqc.py, lines 370-377) *)

\* C23: every segment of the (incident, category) set that a chain of segments
\* with pairwise overlapping buffers links to a segment of the Action is in
\* that Action, whether or not its own buffer overlaps the buffer of that segment.
C23_ChainsShareAction ==
    (pc = "loop" /\ act # <<>> /\ geo_lst # <<>>) =>
        \A s \in Range(act[1].lns) : \A t \in ChainFrom({s}, ActSet) : InAct(t)

\* an Action holds two segments whose buffers do not overlap and that a third
\* segment links
C23_Witness ==
    /\ pc = "loop" /\ act # <<>> /\ geo_lst # <<>>
    /\ \E s \in Range(act[1].lns) : \E t \in Range(act[1].lns) :
        /\ ~ BuffersOverlap(s.geometry, t.geometry)
        /\ t \in ChainFrom({s}, ActSet)

-----------------------------------------------------------------------------
(* Spacing of the densified vertices (xbuild/qaqc.py, lines 299-304) *)

\* the densified segments of the Action in act that are at least line_dist long
LongSegments ==
    {i \in DOMAIN act[1].dlns : act[1].lns[i].geometry.hi - act[1].lns[i].geometry.lo >= line_dist}

\* the distance from vertex k of a densified line to the next
Step(v, k) == RSub(v[k + 1], v[k])

\* C24 as claimed: consecutive vertices of a densified segment at least one
\* interval long are line_dist apart.
C24_SpacedAtLineDist ==
    act # <<>> =>
        \A i \in LongSegments : \A k \in 1..(Len(act[1].dlns[i]) - 1) :
            Step(act[1].dlns[i], k) = R(line_dist)

\* C24 as amended: consecutive vertices of a densified segment at least one
\* interval long are equally spaced, at least 3/4 of line_dist and less than
\* 3/2 of line_dist apart, and exactly line_dist apart when the length of the
\* segment is a multiple of line_dist.
C24_SpacedEvenlyNearLineDist ==
    act # <<>> =>
        \A i \in LongSegments : \A k \in 1..(Len(act[1].dlns[i]) - 1) :
            /\ Step(act[1].dlns[i], k) = Step(act[1].dlns[i], 1)
            /\ RLe(Rat(3 * line_dist, 4), Step(act[1].dlns[i], k))
            /\ RLt(Step(act[1].dlns[i], k), Rat(3 * line_dist, 2))
            /\ (act[1].lns[i].geometry.hi - act[1].lns[i].geometry.lo) % line_dist = 0 =>
                    Step(act[1].dlns[i], k) = R(line_dist)

\* a segment whose length is not a multiple of line_dist was densified to
\* more than two vertices
C24_Witness ==
    /\ act # <<>>
    /\ \E i \in LongSegments :
        /\ (act[1].lns[i].geometry.hi - act[1].lns[i].geometry.lo) % line_dist # 0
        /\ Len(act[1].dlns[i]) > 2

-----------------------------------------------------------------------------
(* The skeleton (xbuild/qaqc.py, lines 386-407) *)

\* the length of a densified line
DLength(v) == RSub(v[Len(v)], v[1])

\* C25: the skeleton of an Action is a densified segment that none of the
\* Action is longer than, and the consolidated line has one vertex for each
\* vertex of the skeleton, in the order of the skeleton: vertex i of the line
\* lies within line_dist of vertex i of the skeleton.
C25_SkeletonIsLongest ==
    (act # <<>> /\ geo_lst # <<>>) =>
        /\ \A j \in DOMAIN act[1].dlns : RLe(DLength(act[1].dlns[j]), DLength(Skeleton))
        /\ Len(act[1].t) = Len(Skeleton)
        /\ geo_lst[Len(geo_lst)].verts = act[1].t
        /\ \A i \in DOMAIN Skeleton : RLe(RAbs(RSub(act[1].t[i], Skeleton[i])), R(line_dist))

\* an Action of segments of different lengths whose skeleton has more than two vertices
C25_Witness ==
    /\ act # <<>> /\ geo_lst # <<>>
    /\ \E j \in DOMAIN act[1].dlns : RLt(DLength(act[1].dlns[j]), DLength(Skeleton))
    /\ Len(Skeleton) > 2
    /\ Len(act[1].t) = Len(Skeleton)

-----------------------------------------------------------------------------
(* The averaged vertices (xbuild/qaqc.py, lines 385-400) *)

\* the densified vertices of each segment of the Action that lie within
\* line_dist of the point v
NearVertices(v) ==
    [j \in DOMAIN act[1].dlns |->
        SelectSeq(act[1].dlns[j], LAMBDA p : RLe(RAbs(RSub(p, v)), R(line_dist)))]

\* C26: vertex i of the consolidated line is the mean of the densified
\* vertices of the segments of its Action that lie within line_dist of vertex i
\* of the skeleton, and of no other vertex; the skeleton vertex is one of them.
C26_MeanOfNearVertices ==
    (pc = "loop" /\ act # <<>> /\ geo_lst # <<>>) =>
        \A sk \in {Skeleton} : \A i \in DOMAIN sk : \A near \in {NearVertices(sk[i])} :
            /\ sk[i] \in Range(near[act[1].lns_l])
            /\ act[1].t[i] =
                    FDiv(RSum([j \in DOMAIN near |-> RSum(near[j])]), R(Len(Flatten(near))))

\* a skeleton vertex is averaged with a vertex of another segment of the
\* Action while some vertex of the Action is too far to count
C26_Witness ==
    /\ pc = "loop" /\ act # <<>> /\ geo_lst # <<>>
    /\ \E i \in DOMAIN Skeleton :
        /\ \E j \in DOMAIN act[1].dlns :
              j # act[1].lns_l /\ NearVertices(Skeleton[i])[j] # <<>>
        /\ \E j \in DOMAIN act[1].dlns :
              Len(NearVertices(Skeleton[i])[j]) < Len(act[1].dlns[j])
        /\ act[1].t[i] # Skeleton[i]

-----------------------------------------------------------------------------
(* The Actions of a set (xbuild/qaqc.py, lines 370-384) *)

\* C27: for the current incident and every category, every segment of the
\* (incident, category) set is in exactly one Action of the category, no Action
\* is empty, and the segments of an Action have one IncidentName and one
\* FeatureCategory.
C27_ActionsPartition ==
    (pc = "loop" /\ rw <= Len(outperm_lnk)) =>
        \A acts \in {CurActions} :
            /\ \A fc \in {l.FeatureCategory : l \in Range(opr_event_lnk)} :
                \A s \in Range(LnsSub(opr_event_lnk, fc, CurId)) :
                    Cardinality({k \in DOMAIN acts :
                                    acts[k].fc = fc /\ s \in Range(acts[k].lns)}) = 1
            /\ \A k \in DOMAIN acts :
                /\ acts[k].lns # <<>>
                /\ \A x \in Range(acts[k].lns) : \A y \in Range(acts[k].lns) :
                    /\ LowerSeq(x.IncidentName) = LowerSeq(y.IncidentName)
                    /\ x.FeatureCategory = y.FeatureCategory

-----------------------------------------------------------------------------
(* The state get_data leaves (xbuild/qaqc.py, lines 270-297 and 119-198) *)

\* C28: when a get_data call has returned or raised, _outperm and _opr_event
\* are both None or both populated.
C28_AllOrNothing ==
    (rest # <<>> /\ rest.pc \in {"returned", "raised"}) =>
        (rest._outperm = <<>> <=> rest._opr_event = <<>>)

\* the loop over the pages of a _get_rest_data call has ended
PagesDone == rest # <<>> /\ rest.pc = "pages" /\ rest.i >= Len(rest.oids)

\* C29: when the loop over the pages has ended, the pages requested hold the
\* ids of the id query, each id once and in order, no page is empty or holds
\* more than min(maxRecordCount, 100) ids, and the problem list holds the ids
\* of exactly the pages answered with another status than 200, each page once.
C29_PagesCoverIds ==
    PagesDone =>
        /\ Flatten([k \in DOMAIN rest.pages |-> rest.pages[k].objectIds]) = rest.oids
        /\ \A k \in DOMAIN rest.pages :
            /\ Len(rest.pages[k].objectIds) >= 1
            /\ Len(rest.pages[k].objectIds) <= rest.maxrcn
            /\ Len(rest.pages[k].objectIds) <= MaxPage
        /\ rest.prbidlst =
             LET failed == SelectSeq(rest.pages, LAMBDA g : g.status_code # 200)
             IN  [k \in DOMAIN failed |-> failed[k].objectIds]

\* a page of 100 ids failed and the page after it was still requested
C29_Witness ==
    /\ PagesDone
    /\ Len(rest.pages) = 2
    /\ Len(rest.pages[1].objectIds) = MaxPage
    /\ rest.pages[1].status_code # 200
    /\ rest.pages[2].status_code = 200
    /\ rest.prbidlst = <<rest.pages[1].objectIds>>

\* the three clip results were counted and all were empty
ZeroLines ==
    /\ fle.HeldResult = <<0>>
    /\ fle.BurnedOverResult = <<0>>
    /\ fle.NotEngagedResult = <<0>>

\* the rows of the metrics table of one engagement class
ClassRows(text) == SelectSeq(fle.Output, LAMBDA r : r.Engagement = <<text>>)

\* C30: once the Held, Burned Over and Not Engaged clip results are counted
\* and all are empty, the run has reported an error, holds no intermediate
\* data, only goes on to exit and never writes a metrics table; when at least
\* one is not empty the run does not exit and, once the metrics are
\* calculated, each empty class has exactly one row in the table, with zero
\* for its values, each other class has its rows, and the first row holds a
\* value for the total length and for every metric.
C30_ZeroLinesOrPlaceholders ==
    /\ ZeroLines =>
        /\ fle.pc \in {"except", "exited"}
        /\ fle.errors # <<>>
        /\ fle.fc = {}
        /\ fle.Output = <<>>
    /\ (fle.HeldResult # <<>> /\ ~ZeroLines) =>
        /\ fle.pc \in {"held", "engagement", "merge", "flag"}
        /\ fle.errors = <<>>
    /\ fle.pc = "flag" =>
        /\ \A held \in {ClassRows("Held")} :
            IF fle.HeldResult = <<0>>
            THEN /\ Len(held) = 1
                 /\ held[1].Shape_Length = R(0)
                 /\ held[1].Shape_Area = R(0)
                 /\ held[1].HaPar = R(0)
                 /\ held[1].HeldLine = R(0)
            ELSE <<Len(held)>> = fle.HeldResult
        /\ \A bo \in {ClassRows("Burned Over")} :
            IF fle.BurnedOverResult = <<0>>
            THEN /\ Len(bo) = 1
                 /\ bo[1].BurnedOverPerimeterSqMt = R(0)
                 /\ bo[1].BurnedOverLineLengthSqMt = R(0)
            ELSE <<Len(bo)>> = fle.BurnedOverResult
        /\ \A ne \in {ClassRows("Not Engaged")} :
            IF fle.NotEngagedResult = <<0>>
            THEN /\ Len(ne) = 1
                 /\ ne[1].NotEngagedPerimeterSqMt = R(0)
                 /\ ne[1].NotEngagedLineLengthSqMt = R(0)
            ELSE <<Len(ne)>> = fle.NotEngagedResult
        /\ Len(fle.Output) =
             Len(ClassRows("Held")) + Len(ClassRows("Burned Over"))
               + Len(ClassRows("Not Engaged"))
        /\ \A f \in {"TotalLine", "HTr", "TR", "ER", "HER", "BTR", "NETR", "PrAr"} :
             fle.Output[1][f] # <<>>
        /\ RLt(R(0), fle.Output[1].TotalLine)

\* the metrics were calculated for a fire with Not Engaged line only: the two
\* other classes have their zero row
C30_Witness ==
    /\ fle.pc = "flag"
    /\ fle.HeldResult = <<0>>
    /\ fle.BurnedOverResult = <<0>>
    /\ fle.NotEngagedResult # <<0>>
    /\ Len(fle.Output) = Len(fle.NotEngaged) + 2
    /\ fle.Output[1].HER = R(0)

====
